---- MODULE Spec2Model ----
(***************************************************************************)
(* The two lab notebooks of mslearn-aml-labs and the two training scripts  *)
(* they write, as one state machine.                                       *)
(*                                                                         *)
(*   02-Training_Models.ipynb      nb = "training"                         *)
(*   13-Monitoring_Data_Drift.ipynb nb = "drift"                           *)
(*   diabetes_training.py (either version) started directly with an       *)
(*   arbitrary command line         nb = "script"                          *)
(*                                                                         *)
(* A notebook is executed top to bottom, one statement per step; an        *)
(* exception no statement of the cell catches ends the execution there.    *)
(* The workspace, its runs, models, datasets and compute targets belong to *)
(* the platform: what a call to it returns or raises is chosen by the      *)
(* platform, so every outcome is enumerated.                               *)
(***************************************************************************)
EXTENDS Integers, Sequences, FiniteSets, TLC

(***************************************************************************)
(* Bounds of the model.                                                    *)
(***************************************************************************)
\* model versions of 'diabetes_model' already in the workspace at the start
MaxOldModels == 1
\* the days on which the drift notebook may be run are 0 .. MaxToday
MaxToday == 1

(***************************************************************************)
(* Exceptions.  A raised exception has one of two classes; both derive     *)
(* from Exception, only the first from ComputeTargetException.             *)
(***************************************************************************)
ExcTypes == {"ComputeTargetException", "OtherException"}

\* isinstance(e, cls) for the classes the except clauses name
IsInstance(e, cls) ==
    \/ cls = "Exception"
    \/ cls = e

NoErr == [at |-> 0, exc |-> "none"]

(***************************************************************************)
(* The notebooks' statements, in execution order.  cell is the index of    *)
(* the code cell, w the training workflow (1: the fixed script and the     *)
(* generic Estimator, 2: the parameterized script and SKLearn).            *)
(***************************************************************************)
St(c, o, w) == [cell |-> c, op |-> o, w |-> w]

TrainingNotebook ==
    << St(1, "connect", 0),
       St(2, "makedirs", 1), St(2, "copy", 1),
       St(3, "writefile", 1),
       St(4, "estimator", 1), St(4, "experiment", 1), St(4, "submit", 1),
       St(4, "wait", 1),
       St(5, "details", 1),
       St(6, "get_metrics", 1), St(6, "get_file_names", 1),
       St(7, "register_model", 1), St(7, "list_models", 1),
       St(8, "makedirs", 2), St(8, "copy", 2),
       St(9, "writefile", 2),
       St(10, "estimator", 2), St(10, "experiment", 2), St(10, "submit", 2),
       St(10, "details", 2), St(10, "wait", 2),
       St(11, "get_metrics", 2), St(11, "get_file_names", 2),
       St(12, "register_model", 2), St(12, "list_models", 2) >>

DriftNotebook ==
    << St(1, "pip_install", 0),
       St(2, "connect", 0),
       St(3, "get_default_datastore", 0), St(3, "upload_baseline", 0),
       St(3, "baseline_from_files", 0), St(3, "register_baseline", 0),
       St(4, "read_csv", 0), St(4, "generate", 0), St(4, "upload_target", 0),
       St(4, "target_from_files", 0), St(4, "register_target", 0),
       St(5, "lookup", 0), St(5, "provisioning_configuration", 0),
       St(5, "create", 0), St(5, "cluster_wait", 0),
       St(6, "create_from_datasets", 0),
       St(7, "backfill", 0), St(7, "backfill_details", 0),
       St(7, "backfill_wait", 0),
       St(8, "drift_metrics", 0) >>

\* the code cell that looks the compute target up or creates it
ComputeCell == 5

(***************************************************************************)
(* The training scripts' statements, in execution order.                   *)
(***************************************************************************)
\* faulty variant: the run is completed before the last metric is logged
Script1_LogLate ==
    << "get_context", "read_csv", "split", "set_reg", "log_reg", "fit",
       "accuracy", "log_accuracy", "auc", "makedirs", "dump", "complete",
       "log_auc" >>

Script1 ==
    << "get_context", "read_csv", "split", "set_reg", "log_reg", "fit",
       "accuracy", "log_accuracy", "auc", "log_auc", "makedirs", "dump",
       "complete" >>

\* faulty variant: the command line is parsed after the data is loaded
Script2_ParseLate ==
    << "get_context", "read_csv", "parse_args", "split", "log_reg", "fit",
       "accuracy", "log_accuracy", "auc", "log_auc", "makedirs", "dump",
       "complete" >>

Script2 ==
    << "get_context", "parse_args", "read_csv", "split", "log_reg", "fit",
       "accuracy", "log_accuracy", "auc", "log_auc", "makedirs", "dump",
       "complete" >>

ScriptProgram(k) == IF k = 1 THEN Script1 ELSE Script2

VARIABLES
    nb,              \* which program is executed
    pc,              \* index of the notebook's next statement
    err,             \* the uncaught exception that ended the execution
    started,         \* indices of the statements that have been executed
    raised,          \* every exception a statement raised, caught or not
    calls,           \* the platform operations invoked, in order
    printed,         \* exceptions printed by an except clause
    reads,           \* reads of a run's results, with the run's status then
    sess,            \* the notebook's Python variables
    files,           \* the local file system
    runs,            \* the workspace's runs
    models,          \* the workspace's registered models
    computeTargets,  \* the workspace's compute targets
    datastore,       \* files of the default datastore
    datasets,        \* registered dataset versions
    monitors,        \* drift monitors
    today,           \* the current day (dt.date.today())
    tick,            \* the current time of day, in ticks (dt.datetime.now())
    sched,           \* when the clock moves during the execution
    rows,            \* the records of data/diabetes2.csv
    lib              \* which function of its inputs the fit computes

ctl   == <<nb, pc, err, started, raised, calls, printed, reads>>
plat  == <<runs, models, computeTargets, datastore, datasets, monitors>>
vars  == <<nb, pc, err, started, raised, calls, printed, reads, sess, files,
           runs, models, computeTargets, datastore, datasets, monitors, today,
           tick, sched, rows, lib>>

Program ==
    IF nb = "training" THEN TrainingNotebook
    ELSE IF nb = "drift" THEN DriftNotebook
    ELSE << >>

Cur == Program[pc]

\* the notebook is about to execute a statement o
At(o) ==
    /\ err = NoErr
    /\ pc \in DOMAIN Program
    /\ Cur.op = o

(***************************************************************************)
(* Numbers are exact fractions <<numerator, denominator>> in lowest terms  *)
(* with a positive denominator; <<0, 0>> stands for "no value".            *)
(***************************************************************************)
NoVal == <<0, 0>>

\* the command-line words tried as the value of --reg_rate
Tokens == {"0.1", "0.01", "1e-2", "1", "0", "-0.5", "abc", ""}

\* Python's float(tok): the value, or NoVal where float raises ValueError
FloatOf(tok) ==
    CASE tok = "0.1"  -> <<1, 10>>
      [] tok = "0.01" -> <<1, 100>>
      [] tok = "1e-2" -> <<1, 100>>
      [] tok = "1"    -> <<1, 1>>
      [] tok = "0"    -> <<0, 1>>
      [] tok = "-0.5" -> <<-1, 2>>
      [] OTHER        -> NoVal

\* str(x) of the float the SKLearn estimator is given as a script parameter
StrOfFloat(x) ==
    CASE x = <<1, 10>>  -> "0.1"
      [] x = <<1, 100>> -> "0.01"
      [] x = <<1, 1>>   -> "1.0"
      [] OTHER          -> "?"

\* reg = 0.01 of the first script
FixedReg == <<1, 100>>

\* add_argument('--reg_rate', type=float, dest='reg', default=0.01)
RegFlag == "--reg_rate"
RegDefault == <<1, 100>>

\* faulty variant: the value of the flag is dropped for the default
ParseArgs_Default(argv) == RegDefault

\* parser.parse_args(): args.reg, or NoVal where argparse exits with an error
ParseArgs(argv) ==
    IF argv = << >> THEN RegDefault
    ELSE IF Len(argv) = 2 /\ argv[1] = RegFlag THEN FloatOf(argv[2])
    ELSE NoVal

\* 1/reg, or NoVal where Python raises ZeroDivisionError
Reciprocal(v) ==
    IF v[1] > 0 THEN <<v[2], v[1]>>
    ELSE IF v[1] < 0 THEN <<-v[2], -v[1]>>
    ELSE NoVal

\* the command lines a script is started with when it is started directly
ArgvSet ==
    {<< >>, <<RegFlag>>, <<"--other", "1">>} \cup {<<RegFlag, t>> : t \in Tokens}

\* script_params of the two estimators, as the command line they become
ScriptParams(w) ==
    IF w = 1 THEN << >> ELSE <<RegFlag, StrOfFloat(<<1, 10>>)>>

(***************************************************************************)
(* The data and the library calls of the training script.  The data file   *)
(* is known by its content; labels are 0 and 1; a predicted probability is *)
(* a number of quarters.                                                   *)
(***************************************************************************)
RECURSIVE GCD(_, _)
GCD(a, b) == IF b = 0 THEN a ELSE GCD(b, a % b)

\* the fraction n/d, d > 0, in lowest terms
Frac(n, d) == <<n \div GCD(n, d), d \div GCD(n, d)>>

\* diabetes['Diabetic'].values of a data file
Diabetic(content) ==
    IF content = "diabetes" THEN <<0, 1, 1, 1, 0, 0, 0, 1, 0, 1>>
    ELSE <<1, 0, 1, 0, 1, 1, 0, 1, 1, 0>>

\* test_size=0.30: the test set takes ceil(0.3 n) of n records
TestSize(n) == (3 * n + 9) \div 10

\* the order into which random_state = seed shuffles n records (n = 10)
Shuffled(n, seed) ==
    [j \in 1..n |-> (((IF seed = 0 THEN 3 ELSE 7) * j + seed) % n) + 1]

\* y_train, y_test of train_test_split(X, y, test_size=0.30, random_state=seed)
TestLabels(y, seed) ==
    [j \in 1..TestSize(Len(y)) |-> y[Shuffled(Len(y), seed)[j]]]

TrainLabels(y, seed) ==
    [j \in 1..(Len(y) - TestSize(Len(y))) |->
        y[Shuffled(Len(y), seed)[j + TestSize(Len(y))]]]

\* no fit has been made yet
NoLib == 0 - 1

RECURSIVE Pow3(_)
Pow3(e) == IF e = 0 THEN 1 ELSE 3 * Pow3(e - 1)

\* the fitted models there are for a test set of n records: model v gives
\* record j the probability (((v div 3^(j-1)) mod 3) + 1) / 4 of class 1
Models(n) == 0..(Pow3(n) - 1)

\* LogisticRegression(C=c, solver="liblinear").fit(X_train, y_train): some
\* function of the data, the split and C; l says which
Fit(l, content, seed, c, n) ==
    (l + (IF content = "diabetes" THEN 0 ELSE 11) + 5 * seed + c[1] + 2 * c[2])
        % Pow3(n)

\* model.predict_proba(X_test): a row <<P(class 0), P(class 1)>> per record
PredictProba(v, n) ==
    [j \in 1..n |-> <<3 - ((v \div Pow3(j - 1)) % 3),
                      ((v \div Pow3(j - 1)) % 3) + 1>>]

\* model.predict(X_test): class 1 where its probability is above one half
Predict(v, n) ==
    [j \in 1..n |-> IF ((v \div Pow3(j - 1)) % 3) + 1 > 2 THEN 1 ELSE 0]

\* faulty variant: the share of the predictions that differ from the label
Average_Errors(y_hat, y_test) ==
    IF Len(y_test) = 0 THEN NoVal
    ELSE Frac(Cardinality({j \in DOMAIN y_test : y_hat[j] # y_test[j]}),
              Len(y_test))

\* np.average(y_hat == y_test); nan for no records
Average(y_hat, y_test) ==
    IF Len(y_test) = 0 THEN NoVal
    ELSE Frac(Cardinality({j \in DOMAIN y_test : y_hat[j] = y_test[j]}),
              Len(y_test))

\* faulty variant: the other column is taken
Column_Other(y_scores, k) == [j \in DOMAIN y_scores |-> y_scores[j][3 - k]]

\* y_scores[:,k-1]: column k of the rows
Column(y_scores, k) == [j \in DOMAIN y_scores |-> y_scores[j][k]]

\* roc_auc_score(y_true, score): the share of the pairs of a record of class
\* 1 and a record of class 0 in which the former has the higher score, ties
\* counting half; NoVal where it raises because one class is absent
RocAucScore(y_true, score) ==
    LET pos  == {j \in DOMAIN y_true : y_true[j] = 1}
        neg  == {j \in DOMAIN y_true : y_true[j] = 0}
        wins == Cardinality({p \in pos \X neg : score[p[1]] > score[p[2]]})
        ties == Cardinality({p \in pos \X neg : score[p[1]] = score[p[2]]})
    IN  IF pos = {} \/ neg = {} THEN NoVal
        ELSE Frac(2 * wins + ties, 2 * Cardinality(pos) * Cardinality(neg))

(***************************************************************************)
(* Files.  A local file is [dir, name, content]; writing a path replaces   *)
(* the file of that path.                                                  *)
(***************************************************************************)
File(d, n, c) == [dir |-> d, name |-> n, content |-> c]

WriteFile(fs, d, n, c) ==
    {f \in fs : ~(f.dir = d /\ f.name = n)} \cup {File(d, n, c)}

Exists(fs, d, n) == \E f \in fs : f.dir = d /\ f.name = n

ContentOf(fs, d, n) == (CHOOSE f \in fs : f.dir = d /\ f.name = n).content

FolderOf(fs, d) == {f \in fs : f.dir = d}

\* training_folder of workflow w
TrainingFolder(w) ==
    IF w = 1 THEN "diabetes-training" ELSE "diabetes-training-params"

\* the text %%writefile writes in workflow w
ScriptText(w) == IF w = 1 THEN "script1" ELSE "script2"

ScriptOfText(c) == IF c = "script1" THEN 1 ELSE 2

ModelPath == "outputs/diabetes_model.pkl"

(***************************************************************************)
(* Runs.  Submitted stands for the states before Running (NotStarted,      *)
(* Queued, Preparing, ...).                                                *)
(***************************************************************************)
\* faulty variant: a wait that only waits for the job to start
RUNNING_STATES_Short == {"Submitted"}

\* the states in which wait_for_completion keeps waiting
RUNNING_STATES == {"Submitted", "Running"}

\* a new run of the entry script of a snapshot of files, or of a backfill
NewRun(kind, snapshot, argv) ==
    [kind |-> kind, snapshot |-> snapshot, argv |-> argv,
     status |-> "Submitted", by |-> "platform",
     spc |-> 1, sexit |-> "none",
     reg |-> NoVal, C |-> NoVal, loaded |-> FALSE, trained |-> FALSE,
     data |-> "none", seed |-> 0, y_train |-> << >>, y_test |-> << >>,
     model |-> 0, y_hat |-> << >>, y_scores |-> << >>,
     acc |-> NoVal, auc |-> NoVal,
     log |-> << >>, files |-> {}, dirs |-> {}, window |-> << >>]

\* the script a run executes: the text of its entry script
ScriptOf(r) ==
    ScriptOfText(ContentOf(r.snapshot, "src", "diabetes_training.py"))

\* the files of a folder as the snapshot a run is given
Snapshot(fs, d) == {File("src", f.name, f.content) : f \in FolderOf(fs, d)}

MetricNames(r) == [i \in DOMAIN r.log |-> r.log[i].name]

HasMetric(r, n) == \E i \in DOMAIN r.log : r.log[i].name = n

\* faulty variant: the subscript takes the first metric logged, whatever its name
MetricOf_First(r, n) == r.log[1].value

\* run.get_metrics()[n]
MetricOf(r, n) ==
    r.log[CHOOSE i \in DOMAIN r.log : r.log[i].name = n].value

(***************************************************************************)
(* The notebook's Python variables before the first cell.                  *)
(***************************************************************************)
NoDataset == [name |-> "unbound", version |-> 0, path |-> "unbound",
              partition_format |-> "none", timestamp |-> "none"]

SessInit ==
    [ws |-> "unbound", training_folder |-> "unbound",
     estimator |-> [kind |-> "none", source_directory |-> "unbound",
                    script_params |-> << >>],
     experiment |-> "unbound", run |-> 0, metrics |-> << >>,
     default_ds |-> "unbound",
     baseline_data_set |-> NoDataset, target_data_set |-> NoDataset,
     data |-> << >>, file_paths |-> << >>, written |-> << >>,
     cluster_name |-> "unbound",
     training_cluster |-> "unbound", monitor |-> 0, backfill |-> 0,
     drift_metrics |-> {}]

(***************************************************************************)
(* How a statement ends.                                                   *)
(***************************************************************************)
\* the statement returns and the next one is executed
Advance ==
    /\ pc' = pc + 1
    /\ started' = started \cup {pc}
    /\ UNCHANGED <<err, raised>>

\* the statement raises e and nothing catches it: the execution ends here
Uncaught(e) ==
    /\ pc' = pc
    /\ started' = started \cup {pc}
    /\ err' = [at |-> pc, exc |-> e]
    /\ raised' = raised \cup {[at |-> pc, exc |-> e]}

Raises == \E e \in ExcTypes : Uncaught(e)

\* a statement of a try block raises e: the except clause for class cls takes
\* it and control goes to statement n, or nothing catches it
Try(e, cls, n, print) ==
    /\ raised' = raised \cup {[at |-> pc, exc |-> e]}
    /\ started' = started \cup {pc}
    /\ IF IsInstance(e, cls)
       THEN /\ pc' = n
            /\ err' = err
            /\ printed' = IF print THEN printed \cup {[at |-> pc, exc |-> e]}
                          ELSE printed
       ELSE /\ pc' = pc
            /\ err' = [at |-> pc, exc |-> e]
            /\ printed' = printed

\* the statement calls the platform operation op
Invoke(op) == calls' = Append(calls, [cell |-> Cur.cell, op |-> op])

\* a read of the results of run i
Read(op, i) == [op |-> op, run |-> i, status |-> runs[i].status]

(***************************************************************************)
(* Cells shared by the notebooks.                                          *)
(***************************************************************************)
\* ws = Workspace.from_config()
Connect ==
    /\ At("connect")
    /\ Invoke("Workspace.from_config")
    /\ \/ Advance /\ sess' = [sess EXCEPT !.ws = "ws"]
       \/ Raises /\ UNCHANGED sess
    /\ UNCHANGED <<nb, printed, reads, files, plat, today, tick, sched, rows, lib>>

(***************************************************************************)
(* 02-Training_Models.ipynb                                                *)
(***************************************************************************)
\* faulty variant: os.makedirs(training_folder), which raises FileExistsError
\* when the folder is there
Makedirs_NoExistOk ==
    /\ At("makedirs")
    /\ \/ /\ ~Exists(files, TrainingFolder(Cur.w), "")
          /\ Advance
          /\ sess' = [sess EXCEPT !.training_folder = TrainingFolder(Cur.w)]
          /\ files' = files \cup {File(TrainingFolder(Cur.w), "", "dir")}
       \/ /\ Raises
          /\ sess' = [sess EXCEPT !.training_folder = TrainingFolder(Cur.w)]
          /\ UNCHANGED files
    /\ UNCHANGED <<nb, calls, printed, reads, plat, today, tick, sched, rows, lib>>

\* training_folder = ...; os.makedirs(training_folder, exist_ok=True)
Makedirs ==
    /\ At("makedirs")
    /\ \/ /\ Advance
          /\ sess' = [sess EXCEPT !.training_folder = TrainingFolder(Cur.w)]
          /\ files' = files \cup {File(TrainingFolder(Cur.w), "", "dir")}
       \/ /\ Raises
          /\ sess' = [sess EXCEPT !.training_folder = TrainingFolder(Cur.w)]
          /\ UNCHANGED files
    /\ UNCHANGED <<nb, calls, printed, reads, plat, today, tick, sched, rows, lib>>

\* shutil.copy('data/diabetes.csv', os.path.join(training_folder, "diabetes.csv"))
Copy ==
    /\ At("copy")
    /\ \/ /\ Exists(files, "data", "diabetes.csv")
          /\ Exists(files, sess.training_folder, "")
          /\ Advance
          /\ files' = WriteFile(files, sess.training_folder, "diabetes.csv",
                                ContentOf(files, "data", "diabetes.csv"))
       \/ Raises /\ UNCHANGED files
    /\ UNCHANGED <<nb, calls, printed, reads, sess, plat, today, tick, sched, rows, lib>>

\* faulty variant: the script is written beside the notebook, not in the folder
Writefile_Cwd ==
    /\ At("writefile")
    /\ \/ /\ Advance
          /\ files' = WriteFile(files, ".", "diabetes_training.py",
                                ScriptText(Cur.w))
       \/ Raises /\ UNCHANGED files
    /\ UNCHANGED <<nb, calls, printed, reads, sess, plat, today, tick, sched, rows, lib>>

\* %%writefile $training_folder/diabetes_training.py
Writefile ==
    /\ At("writefile")
    /\ \/ /\ Exists(files, sess.training_folder, "")
          /\ Advance
          /\ files' = WriteFile(files, sess.training_folder,
                                "diabetes_training.py", ScriptText(Cur.w))
       \/ Raises /\ UNCHANGED files
    /\ UNCHANGED <<nb, calls, printed, reads, sess, plat, today, tick, sched, rows, lib>>

\* estimator = Estimator(...) or SKLearn(...)
EstimatorCtor ==
    /\ At("estimator")
    /\ Invoke(IF Cur.w = 1 THEN "Estimator" ELSE "SKLearn")
    /\ \/ /\ Advance
          /\ sess' = [sess EXCEPT !.estimator =
                 [kind |-> IF Cur.w = 1 THEN "Estimator" ELSE "SKLearn",
                  source_directory |-> sess.training_folder,
                  script_params |-> ScriptParams(Cur.w)]]
       \/ Raises /\ UNCHANGED sess
    /\ UNCHANGED <<nb, printed, reads, files, plat, today, tick, sched, rows, lib>>

\* faulty variant: the cell binds ws anew as it makes the experiment
ExperimentCtor_Rebind ==
    /\ At("experiment")
    /\ Invoke("Experiment")
    /\ \/ Advance /\ sess' = [sess EXCEPT !.experiment = "diabetes-training",
                                           !.ws = "ws'"]
       \/ Raises /\ UNCHANGED sess
    /\ UNCHANGED <<nb, printed, reads, files, plat, today, tick, sched, rows, lib>>

\* experiment = Experiment(workspace = ws, name = experiment_name)
ExperimentCtor ==
    /\ At("experiment")
    /\ Invoke("Experiment")
    /\ \/ Advance /\ sess' = [sess EXCEPT !.experiment = "diabetes-training"]
       \/ Raises /\ UNCHANGED sess
    /\ UNCHANGED <<nb, printed, reads, files, plat, today, tick, sched, rows, lib>>

\* faulty variant: a failed submission is tried again
Submit_Retry ==
    /\ At("submit")
    /\ Invoke("experiment.submit")
    /\ \/ /\ Exists(files, sess.estimator.source_directory, "diabetes_training.py")
          /\ Advance
          /\ runs' = Append(runs,
                 NewRun("script",
                        Snapshot(files, sess.estimator.source_directory),
                        sess.estimator.script_params))
          /\ sess' = [sess EXCEPT !.run = Len(runs) + 1]
       \/ /\ \E e \in ExcTypes : raised' = raised \cup {[at |-> pc, exc |-> e]}
          /\ UNCHANGED <<pc, err, started, sess, runs>>
    /\ UNCHANGED <<nb, printed, reads, files, models, computeTargets,
                   datastore, datasets, monitors, today, tick, sched, rows, lib>>

\* run = experiment.submit(config=estimator)
Submit ==
    /\ At("submit")
    /\ Invoke("experiment.submit")
    /\ \/ /\ Exists(files, sess.estimator.source_directory, "diabetes_training.py")
          /\ Advance
          /\ runs' = Append(runs,
                 NewRun("script",
                        Snapshot(files, sess.estimator.source_directory),
                        sess.estimator.script_params))
          /\ sess' = [sess EXCEPT !.run = Len(runs) + 1]
       \/ Raises /\ UNCHANGED <<sess, runs>>
    /\ UNCHANGED <<nb, printed, reads, files, models, computeTargets,
                   datastore, datasets, monitors, today, tick, sched, rows, lib>>

\* faulty variant: a wait that gives up marks the run it waited for as failed
Wait_FailsRun ==
    /\ At("wait")
    /\ \/ /\ runs[sess.run].status \notin RUNNING_STATES
          /\ runs[sess.run].status # "Failed"
          /\ Advance
          /\ UNCHANGED runs
       \/ /\ runs[sess.run].status = "Failed"
          /\ Uncaught("OtherException")
          /\ UNCHANGED runs
       \/ /\ Raises
          /\ runs' = [runs EXCEPT ![sess.run].status =
                         IF @ \in RUNNING_STATES THEN "Failed" ELSE @]
    /\ Invoke("run.wait_for_completion")
    /\ UNCHANGED <<nb, printed, reads, sess, files, models, computeTargets,
                   datastore, datasets, monitors, today, tick, sched, rows, lib>>

\* run.wait_for_completion(): returns once the run has left RUNNING_STATES,
\* and raises when the run has failed
Wait ==
    /\ At("wait")
    /\ \/ /\ runs[sess.run].status \notin RUNNING_STATES
          /\ runs[sess.run].status # "Failed"
          /\ Advance
       \/ /\ runs[sess.run].status = "Failed"
          /\ Uncaught("OtherException")
       \/ Raises
    /\ Invoke("run.wait_for_completion")
    /\ UNCHANGED <<nb, printed, reads, sess, files, plat, today, tick, sched, rows, lib>>

\* RunDetails(run).show()
Details ==
    /\ At("details")
    /\ Invoke("RunDetails.show")
    /\ \/ Advance
       \/ Raises
    /\ UNCHANGED <<nb, printed, reads, sess, files, plat, today, tick, sched, rows, lib>>

\* metrics = run.get_metrics()
GetMetrics ==
    /\ At("get_metrics")
    /\ Invoke("run.get_metrics")
    /\ \/ /\ Advance
          /\ sess' = [sess EXCEPT !.metrics = runs[sess.run].log]
          /\ reads' = reads \cup {Read("get_metrics", sess.run)}
       \/ Raises /\ UNCHANGED <<sess, reads>>
    /\ UNCHANGED <<nb, printed, files, plat, today, tick, sched, rows, lib>>

\* for file in run.get_file_names(): print(file)
GetFileNames ==
    /\ At("get_file_names")
    /\ Invoke("run.get_file_names")
    /\ \/ Advance /\ reads' = reads \cup {Read("get_file_names", sess.run)}
       \/ Raises /\ UNCHANGED reads
    /\ UNCHANGED <<nb, printed, sess, files, plat, today, tick, sched, rows, lib>>

\* faulty variant: a registration reuses the first version
NextVersion_First(ms, name) == 1

\* the version the workspace gives the next model registered under a name
NextVersion(ms, name) ==
    1 + Cardinality({i \in DOMAIN ms : ms[i].name = name})

TrainingContext(w) ==
    IF w = 1 THEN "Estimator" ELSE "Parameterized SKLearn Estimator"

\* run.register_model(model_path=..., model_name=..., tags=..., properties=
\*     {'AUC': run.get_metrics()['AUC'], 'Accuracy': run.get_metrics()['Accuracy']})
RegisterModel ==
    /\ At("register_model")
    /\ LET r  == runs[sess.run]
           gm == [cell |-> Cur.cell, op |-> "run.get_metrics"]
           rm == [cell |-> Cur.cell, op |-> "run.register_model"]
       IN  \/ \* a metric is missing: the subscript raises KeyError
              /\ ~(HasMetric(r, "AUC") /\ HasMetric(r, "Accuracy"))
              /\ calls' = calls \o (IF HasMetric(r, "AUC") THEN <<gm, gm>> ELSE <<gm>>)
              /\ reads' = reads \cup {Read("get_metrics", sess.run)}
              /\ Uncaught("OtherException")
              /\ UNCHANGED models
           \/ /\ HasMetric(r, "AUC") /\ HasMetric(r, "Accuracy")
              /\ ModelPath \in r.files
              /\ calls' = calls \o <<gm, gm, rm>>
              /\ reads' = reads \cup {Read("get_metrics", sess.run),
                                      Read("register_model", sess.run)}
              /\ models' = Append(models,
                     [name |-> "diabetes_model",
                      version |-> NextVersion(models, "diabetes_model"),
                      context |-> TrainingContext(Cur.w),
                      AUC |-> MetricOf(r, "AUC"),
                      Accuracy |-> MetricOf(r, "Accuracy"),
                      run |-> sess.run, path |-> ModelPath])
              /\ Advance
           \/ /\ HasMetric(r, "AUC") /\ HasMetric(r, "Accuracy")
              /\ calls' = calls \o <<gm, gm, rm>>
              /\ reads' = reads \cup {Read("get_metrics", sess.run),
                                      Read("register_model", sess.run)}
              /\ Raises
              /\ UNCHANGED models
           \/ \* the first get_metrics call fails
              /\ calls' = calls \o <<gm>>
              /\ Raises
              /\ UNCHANGED <<reads, models>>
    /\ UNCHANGED <<nb, printed, sess, files, runs, computeTargets, datastore,
                   datasets, monitors, today, tick, sched, rows, lib>>

\* for model in Model.list(ws): print(...)
ListModels ==
    /\ At("list_models")
    /\ Invoke("Model.list")
    /\ \/ Advance
       \/ Raises
    /\ UNCHANGED <<nb, printed, reads, sess, files, plat, today, tick, sched, rows, lib>>

(***************************************************************************)
(* diabetes_training.py, executed by run i.                                *)
(***************************************************************************)
SAt(i, op) ==
    /\ runs[i].kind = "script"
    /\ runs[i].status = "Running"
    /\ runs[i].sexit = "none"
    /\ runs[i].spc \in DOMAIN ScriptProgram(ScriptOf(runs[i]))
    /\ ScriptProgram(ScriptOf(runs[i]))[runs[i].spc] = op

\* run i becomes r; nothing else changes
SSet(i, r) ==
    /\ runs' = [runs EXCEPT ![i] = r]
    /\ UNCHANGED <<ctl, sess, files, models, computeTargets, datastore,
                   datasets, monitors, today, tick, sched, rows, lib>>

\* the statement returns
SOk(r) == [r EXCEPT !.spc = @ + 1]

\* the statement raises: the script exits with an error
SFails(i) == SSet(i, [runs[i] EXCEPT !.sexit = "error"])

\* run = Run.get_context()
S_GetContext(i) ==
    /\ SAt(i, "get_context")
    /\ \/ SSet(i, SOk(runs[i]))
       \/ SFails(i)

\* args = parser.parse_args(); reg = args.reg
S_ParseArgs(i) ==
    /\ SAt(i, "parse_args")
    /\ IF ParseArgs(runs[i].argv) = NoVal
       THEN SFails(i)
       ELSE SSet(i, [SOk(runs[i]) EXCEPT !.reg = ParseArgs(runs[i].argv)])

\* reg = 0.01
S_SetReg(i) ==
    /\ SAt(i, "set_reg")
    /\ SSet(i, [SOk(runs[i]) EXCEPT !.reg = FixedReg])

\* diabetes = pd.read_csv('diabetes.csv')
S_ReadCsv(i) ==
    /\ SAt(i, "read_csv")
    /\ \/ /\ Exists(runs[i].snapshot, "src", "diabetes.csv")
          /\ SSet(i, [SOk(runs[i]) EXCEPT
                         !.loaded = TRUE,
                         !.data = ContentOf(runs[i].snapshot, "src", "diabetes.csv")])
       \/ SFails(i)

\* the random_state of train_test_split
SplitSeed == 0

\* faulty variant: the split is not seeded
S_Split_Unseeded(i) ==
    /\ SAt(i, "split")
    /\ \/ \E sd \in {0, 1} :
             SSet(i, [SOk(runs[i]) EXCEPT
                         !.seed = sd,
                         !.y_train = TrainLabels(Diabetic(runs[i].data), sd),
                         !.y_test = TestLabels(Diabetic(runs[i].data), sd)])
       \/ SFails(i)

\* X, y = ..., diabetes['Diabetic'].values
\* X_train, X_test, y_train, y_test =
\*     train_test_split(X, y, test_size=0.30, random_state=0)
S_Split(i) ==
    /\ SAt(i, "split")
    /\ \/ SSet(i, [SOk(runs[i]) EXCEPT
                      !.seed = SplitSeed,
                      !.y_train = TrainLabels(Diabetic(runs[i].data), SplitSeed),
                      !.y_test = TestLabels(Diabetic(runs[i].data), SplitSeed)])
       \/ SFails(i)

\* run.log(name, value)
Log(r, n, v) == [r EXCEPT !.log = Append(@, [name |-> n, value |-> v])]

\* run.log('Regularization Rate', np.float(reg))
S_LogReg(i) ==
    /\ SAt(i, "log_reg")
    /\ \/ SSet(i, Log(SOk(runs[i]), "Regularization Rate", runs[i].reg))
       \/ SFails(i)

\* model = LogisticRegression(C=1/reg, solver="liblinear").fit(X_train, y_train)
\* 1/reg raises for reg = 0, and the fit rejects a penalty that is not positive
\* which function the fit computes is the same at every call: it shows at
\* the first
S_Fit(i) ==
    /\ SAt(i, "fit")
    /\ LET c == Reciprocal(runs[i].reg)
           r == runs[i]
       IN  \/ /\ c # NoVal
              /\ c[1] > 0
              /\ \E j \in DOMAIN r.y_train : r.y_train[j] = 0
              /\ \E j \in DOMAIN r.y_train : r.y_train[j] = 1
              /\ \E l \in Models(Len(r.y_test)) :
                    /\ lib = NoLib \/ lib = l
                    /\ lib' = l
                    /\ runs' = [runs EXCEPT ![i] =
                          [SOk(r) EXCEPT
                              !.C = c, !.trained = TRUE,
                              !.model = Fit(l, r.data, r.seed, c, Len(r.y_test))]]
              /\ UNCHANGED <<ctl, sess, files, models, computeTargets, datastore,
                             datasets, monitors, today, tick, sched,
                             rows>>
           \/ SSet(i, [runs[i] EXCEPT !.C = c, !.sexit = "error"])

\* y_hat = model.predict(X_test); acc = np.average(y_hat == y_test)
S_Accuracy(i) ==
    /\ SAt(i, "accuracy")
    /\ \/ LET y_hat == Predict(runs[i].model, Len(runs[i].y_test))
          IN  SSet(i, [SOk(runs[i]) EXCEPT
                          !.y_hat = y_hat,
                          !.acc = Average(y_hat, runs[i].y_test)])
       \/ SFails(i)

\* run.log('Accuracy', np.float(acc))
S_LogAccuracy(i) ==
    /\ SAt(i, "log_accuracy")
    /\ \/ SSet(i, Log(SOk(runs[i]), "Accuracy", runs[i].acc))
       \/ SFails(i)

\* y_scores = model.predict_proba(X_test); auc = roc_auc_score(y_test, y_scores[:,1])
S_Auc(i) ==
    /\ SAt(i, "auc")
    /\ LET y_scores == PredictProba(runs[i].model, Len(runs[i].y_test))
           auc == RocAucScore(runs[i].y_test, Column(y_scores, 2))
       IN  \/ /\ auc # NoVal
              /\ SSet(i, [SOk(runs[i]) EXCEPT !.y_scores = y_scores, !.auc = auc])
           \/ SFails(i)

\* run.log('AUC', np.float(auc))
S_LogAuc(i) ==
    /\ SAt(i, "log_auc")
    /\ \/ SSet(i, Log(SOk(runs[i]), "AUC", runs[i].auc))
       \/ SFails(i)

\* os.makedirs('outputs', exist_ok=True)
S_Makedirs(i) ==
    /\ SAt(i, "makedirs")
    /\ \/ SSet(i, [SOk(runs[i]) EXCEPT !.dirs = @ \cup {"outputs"}])
       \/ SFails(i)

\* faulty variant: the dump leaves a second file in the output directory
S_Dump_Extra(i) ==
    /\ SAt(i, "dump")
    /\ \/ /\ "outputs" \in runs[i].dirs
          /\ SSet(i, [SOk(runs[i]) EXCEPT
                         !.files = @ \cup {ModelPath, "outputs/diabetes_model.tmp"}])
       \/ SFails(i)

\* joblib.dump(value=model, filename='outputs/diabetes_model.pkl')
S_Dump(i) ==
    /\ SAt(i, "dump")
    /\ \/ /\ "outputs" \in runs[i].dirs
          /\ SSet(i, [SOk(runs[i]) EXCEPT !.files = @ \cup {ModelPath}])
       \/ SFails(i)

\* run.complete(): the run is marked as completed; the script ends
S_Complete(i) ==
    /\ SAt(i, "complete")
    /\ \/ SSet(i, [SOk(runs[i]) EXCEPT !.status = "Completed", !.by = "script",
                                       !.sexit = "ok"])
       \/ SFails(i)

(***************************************************************************)
(* The platform's part in a run.                                           *)
(***************************************************************************)
PSet(i, r) ==
    /\ runs' = [runs EXCEPT ![i] = r]
    /\ UNCHANGED <<ctl, sess, files, models, computeTargets, datastore,
                   datasets, monitors, today, tick, sched, rows, lib>>

\* the environment is ready and the job starts
PlatformStart(i) ==
    /\ runs[i].status = "Submitted"
    /\ PSet(i, [runs[i] EXCEPT !.status = "Running", !.by = "platform"])

\* the platform reports a failure: the environment build, the script's
\* exception, a timeout
PlatformFail(i) ==
    /\ runs[i].status \in RUNNING_STATES
    /\ PSet(i, [runs[i] EXCEPT !.status = "Failed", !.by = "platform",
                               !.sexit = IF @ = "none" THEN "killed" ELSE @])

\* the drift values a backfill computes per interval (none of it is local)
DriftValues == {<<0, 1>>, <<1, 2>>}

\* a backfill job has done its work and post-processes its results
BackfillFinalize(i) ==
    /\ runs[i].kind = "backfill"
    /\ runs[i].status = "Running"
    /\ \E v \in DriftValues :
          PSet(i, [runs[i] EXCEPT !.status = "Finalizing", !.by = "platform",
                      !.log = <<[name |-> "drift", value |-> v]>>])

\* post-processing is over
BackfillFinish(i) ==
    /\ runs[i].kind = "backfill"
    /\ runs[i].status = "Finalizing"
    /\ PSet(i, [runs[i] EXCEPT !.status = "Completed", !.by = "platform"])

(***************************************************************************)
(* 13-Monitoring_Data_Drift.ipynb                                          *)
(***************************************************************************)
\* faulty variant: a branch that ends goes on with the statement below it
AfterCell_Fallthrough(c) == pc + 1

\* the first statement after code cell c
AfterCell(c) ==
    IF \E j \in DOMAIN Program : Program[j].cell > c
    THEN CHOOSE j \in DOMAIN Program :
            /\ Program[j].cell > c
            /\ \A k \in DOMAIN Program : Program[k].cell > c => j <= k
    ELSE Len(Program) + 1

\* !pip install ...: a shell command's failure raises nothing in the notebook
PipInstall ==
    /\ At("pip_install")
    /\ Advance
    /\ UNCHANGED <<nb, calls, printed, reads, sess, files, plat, today, tick, sched, rows, lib>>

\* faulty variant: the datastore is named without asking the workspace
GetDefaultDatastore_Unasked ==
    /\ At("get_default_datastore")
    /\ UNCHANGED calls
    /\ \/ Advance /\ sess' = [sess EXCEPT !.default_ds = "workspaceblobstore"]
       \/ Raises /\ UNCHANGED sess
    /\ UNCHANGED <<nb, printed, reads, files, plat, today, tick, sched, rows, lib>>

\* default_ds = ws.get_default_datastore()
GetDefaultDatastore ==
    /\ At("get_default_datastore")
    /\ Invoke("ws.get_default_datastore")
    /\ \/ Advance /\ sess' = [sess EXCEPT !.default_ds = "workspaceblobstore"]
       \/ Raises /\ UNCHANGED sess
    /\ UNCHANGED <<nb, printed, reads, files, plat, today, tick, sched, rows, lib>>

\* upload_files(files=fs, target_path=t, overwrite=True) on a datastore ds
Upload(ds, fs, t) ==
    {f \in ds : ~(f.dir = t /\ \E g \in fs : g.name = f.name)}
        \cup {File(t, g.name, g.content) : g \in fs}

\* faulty variant: the upload's failure is swallowed and the cell goes on
UploadBaseline_Swallow ==
    /\ At("upload_baseline")
    /\ Invoke("default_ds.upload_files")
    /\ \/ /\ Advance
          /\ UNCHANGED printed
          /\ datastore' = Upload(datastore,
                 {f \in files : f.dir = "data"
                                /\ f.name \in {"diabetes.csv", "diabetes2.csv"}},
                 "diabetes-baseline")
       \/ /\ \E e \in ExcTypes : Try(e, "Exception", pc + 1, FALSE)
          /\ UNCHANGED datastore
    /\ UNCHANGED <<nb, reads, sess, files, runs, models,
                   computeTargets, datasets, monitors, today, tick, sched, rows, lib>>

\* default_ds.upload_files(files=['./data/diabetes.csv', './data/diabetes2.csv'],
\*                         target_path='diabetes-baseline', overwrite=True, ...)
UploadBaseline ==
    /\ At("upload_baseline")
    /\ Invoke("default_ds.upload_files")
    /\ \/ /\ Advance
          /\ datastore' = Upload(datastore,
                 {f \in files : f.dir = "data"
                                /\ f.name \in {"diabetes.csv", "diabetes2.csv"}},
                 "diabetes-baseline")
       \/ Raises /\ UNCHANGED datastore
    /\ UNCHANGED <<nb, printed, reads, sess, files, runs, models,
                   computeTargets, datasets, monitors, today, tick, sched, rows, lib>>

\* a dataset not registered yet, over the files a path matches
Unregistered(path, fmt) ==
    [name |-> "", version |-> 0, path |-> path, partition_format |-> fmt,
     timestamp |-> "none"]

\* baseline_data_set = Dataset.Tabular.from_delimited_files(
\*     path=(default_ds, 'diabetes-baseline/*.csv'))
BaselineFromFiles ==
    /\ At("baseline_from_files")
    /\ Invoke("Dataset.Tabular.from_delimited_files")
    /\ \/ /\ Advance
          /\ sess' = [sess EXCEPT !.baseline_data_set =
                          Unregistered("diabetes-baseline/*.csv", "none")]
       \/ Raises /\ UNCHANGED sess
    /\ UNCHANGED <<nb, printed, reads, files, plat, today, tick, sched, rows, lib>>

\* faulty variant: create_new_version=False, a registered name keeps its version
Registered_NoNewVersion(dss, ds, n) ==
    [ds EXCEPT !.name = n,
               !.version = IF \E i \in DOMAIN dss : dss[i].name = n
                           THEN Cardinality({i \in DOMAIN dss : dss[i].name = n})
                           ELSE 1]

\* ds.register(workspace=ws, name=n, ..., create_new_version=True)
Registered(dss, ds, n) ==
    [ds EXCEPT !.name = n,
               !.version = 1 + Cardinality({i \in DOMAIN dss : dss[i].name = n})]

\* faulty variant: the registration's result is not bound to the variable
RegisterBaseline_Unbound ==
    /\ At("register_baseline")
    /\ Invoke("Dataset.register")
    /\ \/ /\ Advance
          /\ datasets' = Append(datasets,
                 Registered(datasets, sess.baseline_data_set, "diabetes baseline"))
          /\ UNCHANGED sess
       \/ Raises /\ UNCHANGED <<sess, datasets>>
    /\ UNCHANGED <<nb, printed, reads, files, runs, models, computeTargets,
                   datastore, monitors, today, tick, sched, rows, lib>>

\* baseline_data_set = baseline_data_set.register(workspace=ws,
\*     name='diabetes baseline', ..., create_new_version=True)
RegisterBaseline ==
    /\ At("register_baseline")
    /\ Invoke("Dataset.register")
    /\ \/ /\ Advance
          /\ LET d == Registered(datasets, sess.baseline_data_set, "diabetes baseline")
             IN  /\ datasets' = Append(datasets, d)
                 /\ sess' = [sess EXCEPT !.baseline_data_set = d]
       \/ Raises /\ UNCHANGED <<sess, datasets>>
    /\ UNCHANGED <<nb, printed, reads, files, runs, models, computeTargets,
                   datastore, monitors, today, tick, sched, rows, lib>>

\* data = pd.read_csv('data/diabetes2.csv')
ReadCsv ==
    /\ At("read_csv")
    /\ \/ /\ Exists(files, "data", "diabetes2.csv")
          /\ Advance
          /\ sess' = [sess EXCEPT !.data = rows]
       \/ Raises /\ UNCHANGED sess
    /\ UNCHANGED <<nb, calls, printed, reads, files, plat, today, tick, sched, rows, lib>>

\* faulty variant: the weeks are taken from this week backwards
Weeknos_Forward == <<0, 1, 2, 3, 4, 5>>

\* weeknos = reversed(range(6))
Weeknos == <<5, 4, 3, 2, 1, 0>>

\* data_date = dt.date.today() - dt.timedelta(weeks=weekno), on a given day
DateOf(day, weekno) == day - 7 * weekno

\* dt.date.today() in pass k of the loop: the clock is read in every pass,
\* and midnight falls after pass sched.midnight (after the last: not in the
\* loop)
TodayIn(k) == IF k <= sched.midnight THEN today ELSE today + 1

\* data_date in pass k
DataDate(k) == DateOf(TodayIn(k), Weeknos[k])

(***************************************************************************)
(* Dates.  A day is counted from day 0, 3 January 2021; a date is a year,  *)
(* a month and a day of the proleptic Gregorian calendar, got from the     *)
(* day's ordinal (1 for 1 January of year 1) as datetime.date does.        *)
(***************************************************************************)
\* date(2021, 1, 3).toordinal()
EpochOrdinal == 737793

IsLeap(y) == y % 4 = 0 /\ (y % 100 # 0 \/ y % 400 = 0)

DaysInMonth(y, m) ==
    IF m = 2 /\ IsLeap(y) THEN 29
    ELSE <<31, 28, 31, 30, 31, 30, 31, 31, 30, 31, 30, 31>>[m]

\* the days before 1 January of year y
DaysBeforeYear(y) ==
    LET p == y - 1
    IN  p * 365 + (p \div 4) - (p \div 100) + (p \div 400)

\* the days of year y before the first of month m
RECURSIVE DaysBeforeMonth(_, _)
DaysBeforeMonth(y, m) ==
    IF m = 1 THEN 0
    ELSE DaysBeforeMonth(y, m - 1) + DaysInMonth(y, m - 1)

Ymd(y, m, d) == [year |-> y, month |-> m, day |-> d]

NoDate == Ymd(0, 0, 0)

\* date.toordinal()
ToOrdinal(date) ==
    DaysBeforeYear(date.year) + DaysBeforeMonth(date.year, date.month) + date.day

\* date.fromordinal(n)
FromOrdinal(n) ==
    LET n400 == (n - 1) \div 146097
        r400 == (n - 1) % 146097
        n100 == r400 \div 36524
        r100 == r400 % 36524
        n4   == r100 \div 1461
        r4   == r100 % 1461
        n1   == r4 \div 365
        r1   == r4 % 365
        year == n400 * 400 + 1 + n100 * 100 + n4 * 4 + n1
        leap == n1 = 3 /\ (n4 # 24 \/ n100 = 3)
        mon  == (r1 + 50) \div 32
        prec == DaysBeforeMonth(IF leap THEN 4 ELSE 1, mon)
    IN  IF n1 = 4 \/ n100 = 4 THEN Ymd(year - 1, 12, 31)
        ELSE IF prec > r1
             THEN Ymd(year, mon - 1,
                      r1 - DaysBeforeMonth(IF leap THEN 4 ELSE 1, mon - 1) + 1)
             ELSE Ymd(year, mon, r1 - prec + 1)

\* the date of a day
DateOfDay(d) == FromOrdinal(EpochOrdinal + d)

\* the day of a date
DayOfDate(date) == ToOrdinal(date) - EpochOrdinal

\* n in decimal, filled with zeros on the left up to w characters
RECURSIVE ZeroFill(_, _)
ZeroFill(str, w) == IF Len(str) >= w THEN str ELSE ZeroFill("0" \o str, w)

\* faulty variant: "%Y-%d-%m", the day before the month
Strftime_DayFirst(date) ==
    ZeroFill(ToString(date.year), 4) \o "-" \o ZeroFill(ToString(date.day), 2)
        \o "-" \o ZeroFill(ToString(date.month), 2)

\* date.strftime("%Y-%m-%d")
Strftime(date) ==
    ZeroFill(ToString(date.year), 4) \o "-" \o ZeroFill(ToString(date.month), 2)
        \o "-" \o ZeroFill(ToString(date.day), 2)

\* 'data/diabetes_{}.csv'.format(data_date.strftime("%Y-%m-%d")), without 'data/'
SnapshotName(d) == "diabetes_" \o Strftime(DateOfDay(d)) \o ".csv"

\* round(x) of a pandas Series for x = n/d, d > 0: to the nearest integer,
\* a half to the even one
Round(n, d) ==
    LET q == n \div d
        r == n % d
    IN  IF 2 * r < d THEN q
        ELSE IF 2 * r > d THEN q + 1
        ELSE IF q % 2 = 0 THEN q ELSE q + 1

\* data['Pregnancies'] = data['Pregnancies'] + 1
\* data['Age'] = round(data['Age'] * 1.2).astype(int)
\* data['BMI'] = data['BMI'] * 1.1
\* a BMI is <<n, e>> for n / 10^e
Drift(row) ==
    [Pregnancies |-> row.Pregnancies + 1,
     Age |-> Round(row.Age * 12, 10),
     BMI |-> <<row.BMI[1] * 11, row.BMI[2] + 1>>]

\* faulty variant: every pass starts from the data as it was read
Drifted_FromSource(data, k) ==
    IF k = 0 THEN data ELSE [j \in DOMAIN data |-> Drift(data[j])]

\* data after k passes of the loop body
RECURSIVE Drifted(_, _)
Drifted(data, k) ==
    IF k = 0 THEN data
    ELSE LET d == Drifted(data, k - 1)
         IN  [j \in DOMAIN d |-> Drift(d[j])]

\* the six files the loop writes in directory dir on a given day from data
SnapshotFiles(dir, day, data) ==
    {File(dir, SnapshotName(DateOf(day, Weeknos[k])), ToString(Drifted(data, k)))
        : k \in DOMAIN Weeknos}

\* what the passes of the loop write: pass k saves the data after k
\* transforms under the name of its data_date
Written(data) ==
    [k \in DOMAIN Weeknos |->
        [date |-> DataDate(k),
         name |-> SnapshotName(DataDate(k)),
         data |-> Drifted(data, k)]]

\* for weekno in weeknos: ... data.to_csv(file_path); file_paths.append(file_path)
\* written[k] is what the k-th pass of the loop wrote, and where; when
\* midnight fell in the loop the cell ends on the next day
Generate ==
    /\ At("generate")
    /\ LET w == Written(sess.data)
       IN  \/ /\ Advance
              /\ files' = {f \in files :
                             ~(f.dir = "data" /\ \E k \in DOMAIN w :
                                   f.name = w[k].name)}
                     \cup {File("data", w[k].name, ToString(w[k].data))
                              : k \in DOMAIN w}
              /\ sess' = [sess EXCEPT
                     !.data = Drifted(sess.data, Len(Weeknos)),
                     !.file_paths = [k \in DOMAIN w |-> w[k].name],
                     !.written = w]
           \/ Raises /\ UNCHANGED <<sess, files>>
    /\ today' = TodayIn(Len(Weeknos))
    /\ tick' = IF sched.midnight < Len(Weeknos) THEN 0 ELSE tick
    /\ UNCHANGED <<nb, calls, printed, reads, plat, sched, rows, lib>>

\* default_ds.upload_files(files=file_paths, target_path=path_on_datastore,
\*                         overwrite=True, ...)
UploadTarget ==
    /\ At("upload_target")
    /\ Invoke("default_ds.upload_files")
    /\ \/ /\ Advance
          /\ datastore' = Upload(datastore,
                 {f \in files : f.dir = "data"
                     /\ \E k \in DOMAIN sess.file_paths : sess.file_paths[k] = f.name},
                 "diabetes-target")
       \/ Raises /\ UNCHANGED datastore
    /\ UNCHANGED <<nb, printed, reads, sess, files, runs, models,
                   computeTargets, datasets, monitors, today, tick, sched, rows, lib>>

(***************************************************************************)
(* The partition format of a dataset: a path pattern with one field        *)
(* {date:<layout>}, whose layout takes the digits of the year at its y,    *)
(* of the month at its M and of the day at its d; other characters stand   *)
(* for themselves.                                                         *)
(***************************************************************************)
\* the place of the first character c of s at or after place i, 0 if none
RECURSIVE IndexFrom(_, _, _)
IndexFrom(str, c, i) ==
    IF i > Len(str) THEN 0
    ELSE IF SubSeq(str, i, i) = c THEN i
    ELSE IndexFrom(str, c, i + 1)

\* the value of a string of decimal digits, -1 if it has another character
RECURSIVE NumberOf(_)
NumberOf(str) ==
    IF Len(str) = 0 THEN 0
    ELSE LET high == NumberOf(SubSeq(str, 1, Len(str) - 1))
             low  == IndexFrom("0123456789", SubSeq(str, Len(str), Len(str)), 1) - 1
         IN  IF high < 0 \/ low < 0 THEN 0 - 1 ELSE 10 * high + low

\* the characters of part at the places where layout has the letter c
RECURSIVE FieldOf(_, _, _, _)
FieldOf(part, layout, c, i) ==
    IF i > Len(layout) THEN ""
    ELSE (IF SubSeq(layout, i, i) = c THEN SubSeq(part, i, i) ELSE "")
            \o FieldOf(part, layout, c, i + 1)

\* the date a path has under a partition format, NoDate if it does not match
ParsePath(fmt, path) ==
    LET open   == IndexFrom(fmt, "{", 1)
        colon  == IndexFrom(fmt, ":", open)
        close  == IndexFrom(fmt, "}", colon)
        prefix == SubSeq(fmt, 1, open - 1)
        layout == SubSeq(fmt, colon + 1, close - 1)
        suffix == SubSeq(fmt, close + 1, Len(fmt))
        part   == SubSeq(path, Len(prefix) + 1, Len(prefix) + Len(layout))
        y      == NumberOf(FieldOf(part, layout, "y", 1))
        m      == NumberOf(FieldOf(part, layout, "M", 1))
        d      == NumberOf(FieldOf(part, layout, "d", 1))
    IN  IF /\ Len(path) = Len(prefix) + Len(layout) + Len(suffix)
           /\ SubSeq(path, 1, Len(prefix)) = prefix
           /\ SubSeq(path, Len(prefix) + Len(layout) + 1, Len(path)) = suffix
           /\ \A i \in 1..Len(layout) :
                 SubSeq(layout, i, i) \notin {"y", "M", "d"} =>
                     SubSeq(part, i, i) = SubSeq(layout, i, i)
           /\ y >= 1 /\ m \in 1..12
           /\ d >= 1 /\ d <= DaysInMonth(y, m)
        THEN Ymd(y, m, d)
        ELSE NoDate

\* target_data_set = Dataset.Tabular.from_delimited_files(
\*     path=(default_ds, path_on_datastore + '/*.csv'),
\*     partition_format=partition_format)
TargetFromFiles ==
    /\ At("target_from_files")
    /\ Invoke("Dataset.Tabular.from_delimited_files")
    /\ \/ /\ Advance
          /\ sess' = [sess EXCEPT !.target_data_set =
                 Unregistered("diabetes-target/*.csv",
                              "diabetes-target/diabetes_{date:yyyy-MM-dd}.csv")]
       \/ Raises /\ UNCHANGED sess
    /\ UNCHANGED <<nb, printed, reads, files, plat, today, tick, sched, rows, lib>>

\* target_data_set = target_data_set.with_timestamp_columns('date').register(
\*     workspace=ws, name='diabetes target', ..., create_new_version=True)
RegisterTarget ==
    /\ At("register_target")
    /\ Invoke("Dataset.register")
    /\ \/ /\ Advance
          /\ LET d == Registered(datasets,
                         [sess.target_data_set EXCEPT !.timestamp = "date"],
                         "diabetes target")
             IN  /\ datasets' = Append(datasets, d)
                 /\ sess' = [sess EXCEPT !.target_data_set = d]
       \/ Raises /\ UNCHANGED <<sess, datasets>>
    /\ UNCHANGED <<nb, printed, reads, files, runs, models, computeTargets,
                   datastore, monitors, today, tick, sched, rows, lib>>

\* cluster_name = "nikhilvmcluster"
ClusterName == "nikhilvmcluster"

\* faulty variant: the lookup's except clause names another class
LookupHandler_WrongClass == "OtherException"

\* except ComputeTargetException:
LookupHandler == "ComputeTargetException"

\* faulty variant: the creation's except clause is as narrow as the lookup's
CreateHandler_Narrow == "ComputeTargetException"

\* except Exception as ex:
CreateHandler == "Exception"

\* faulty variant: the creation statements follow the lookup whatever it gave
Lookup_ThenCreate ==
    /\ At("lookup")
    /\ Invoke("ComputeTarget")
    /\ \/ /\ ClusterName \in computeTargets
          /\ pc' = pc + 1
          /\ started' = started \cup {pc}
          /\ sess' = [sess EXCEPT !.cluster_name = ClusterName,
                                  !.training_cluster = ClusterName]
          /\ UNCHANGED <<err, raised, printed>>
       \/ /\ \E e \in ExcTypes : Try(e, LookupHandler, pc + 1, FALSE)
          /\ sess' = [sess EXCEPT !.cluster_name = ClusterName]
    /\ UNCHANGED <<nb, reads, files, plat, today, tick, sched, rows, lib>>

\* try: training_cluster = ComputeTarget(workspace=ws, name=cluster_name)
\*      print('Found existing cluster, use it.')
\* except ComputeTargetException: (the creation path)
Lookup ==
    /\ At("lookup")
    /\ Invoke("ComputeTarget")
    /\ \/ /\ ClusterName \in computeTargets
          /\ pc' = AfterCell(Cur.cell)
          /\ started' = started \cup {pc}
          /\ sess' = [sess EXCEPT !.cluster_name = ClusterName,
                                  !.training_cluster = ClusterName]
          /\ UNCHANGED <<err, raised, printed>>
       \/ /\ \E e \in ExcTypes : Try(e, LookupHandler, pc + 1, FALSE)
          /\ sess' = [sess EXCEPT !.cluster_name = ClusterName]
    /\ UNCHANGED <<nb, reads, files, plat, today, tick, sched, rows, lib>>

\* try: compute_config = AmlCompute.provisioning_configuration(
\*          vm_size='STANDARD_DS11_V2', max_nodes=2)
\* except Exception as ex: print(ex)
ProvisioningConfiguration ==
    /\ At("provisioning_configuration")
    /\ Invoke("AmlCompute.provisioning_configuration")
    /\ \/ Advance /\ UNCHANGED printed
       \/ \E e \in ExcTypes : Try(e, CreateHandler, AfterCell(Cur.cell), TRUE)
    /\ UNCHANGED <<nb, reads, sess, files, plat, today, tick, sched, rows, lib>>

\* training_cluster = ComputeTarget.create(ws, cluster_name, compute_config)
Create ==
    /\ At("create")
    /\ Invoke("ComputeTarget.create")
    /\ \/ /\ Advance
          /\ computeTargets' = computeTargets \cup {sess.cluster_name}
          /\ sess' = [sess EXCEPT !.training_cluster = sess.cluster_name]
          /\ UNCHANGED printed
       \/ /\ \E e \in ExcTypes : Try(e, CreateHandler, AfterCell(Cur.cell), TRUE)
          /\ UNCHANGED <<sess, computeTargets>>
    /\ UNCHANGED <<nb, reads, files, runs, models, datastore, datasets,
                   monitors, today, tick, sched, rows, lib>>

\* training_cluster.wait_for_completion(show_output=True)
ClusterWait ==
    /\ At("cluster_wait")
    /\ Invoke("training_cluster.wait_for_completion")
    /\ \/ Advance /\ UNCHANGED printed
       \/ \E e \in ExcTypes : Try(e, CreateHandler, AfterCell(Cur.cell), TRUE)
    /\ UNCHANGED <<nb, reads, sess, files, plat, today, tick, sched, rows, lib>>

\* features = ['Pregnancies', 'Age', 'BMI']
Features == <<"Pregnancies", "Age", "BMI">>

\* monitor = DataDriftDetector.create_from_datasets(ws, 'diabetes-drift-detector',
\*     baseline_data_set, target_data_set, compute_target=cluster_name,
\*     frequency='Week', feature_list=features, drift_threshold=.3, latency=24)
CreateFromDatasets ==
    /\ At("create_from_datasets")
    /\ Invoke("DataDriftDetector.create_from_datasets")
    /\ \/ /\ Advance
          /\ monitors' = Append(monitors,
                 [name |-> "diabetes-drift-detector",
                  baseline |-> sess.baseline_data_set,
                  target |-> sess.target_data_set,
                  compute_target |-> sess.cluster_name,
                  frequency |-> "Week", feature_list |-> Features,
                  drift_threshold |-> <<3, 10>>, latency |-> 24])
          /\ sess' = [sess EXCEPT !.monitor = Len(monitors) + 1]
       \/ Raises /\ UNCHANGED <<sess, monitors>>
    /\ UNCHANGED <<nb, printed, reads, files, runs, models, computeTargets,
                   datastore, datasets, today, tick, sched, rows, lib>>

\* the ticks of a day: a time is a day and a tick of it, tick 0 is 00:00
TicksPerDay == 3

\* a window of five weeks: it begins at the date of the oldest snapshot only
\* when the backfill starts at 00:00 of the day of the generation
BackfillWeeks_Five == 6 - 1

\* dt.timedelta(weeks=6)
BackfillWeeks == 6

\* backfill = monitor.backfill(dt.datetime.now() - dt.timedelta(weeks=6),
\*                             dt.datetime.now())
\* the cell is run sched.wait ticks after the generation cell; its two
\* readings of the clock give the same time
Backfill ==
    /\ At("backfill")
    /\ Invoke("monitor.backfill")
    /\ today' = today + ((tick + sched.wait) \div TicksPerDay)
    /\ tick' = (tick + sched.wait) % TicksPerDay
    /\ \/ /\ Advance
          /\ runs' = Append(runs,
                 [NewRun("backfill", {}, << >>) EXCEPT !.window =
                     [start |-> <<today' - 7 * BackfillWeeks, tick'>>,
                      end   |-> <<today', tick'>>]])
          /\ sess' = [sess EXCEPT !.backfill = Len(runs) + 1]
       \/ Raises /\ UNCHANGED <<sess, runs>>
    /\ UNCHANGED <<nb, printed, reads, files, models, computeTargets,
                   datastore, datasets, monitors, sched, rows, lib>>

\* RunDetails(backfill).show()
BackfillDetails ==
    /\ At("backfill_details")
    /\ Invoke("RunDetails.show")
    /\ \/ Advance
       \/ Raises
    /\ UNCHANGED <<nb, printed, reads, sess, files, plat, today, tick, sched, rows, lib>>

\* backfill.wait_for_completion(): the recorded result of this call is the
\* details of a run whose status is 'Finalizing'
BackfillWait ==
    /\ At("backfill_wait")
    /\ \/ /\ runs[sess.backfill].status \notin RUNNING_STATES
          /\ runs[sess.backfill].status # "Failed"
          /\ Advance
       \/ /\ runs[sess.backfill].status = "Failed"
          /\ Uncaught("OtherException")
       \/ Raises
    /\ Invoke("backfill.wait_for_completion")
    /\ UNCHANGED <<nb, printed, reads, sess, files, plat, today, tick, sched, rows, lib>>

\* drift_metrics = backfill.get_metrics()
DriftMetrics ==
    /\ At("drift_metrics")
    /\ Invoke("backfill.get_metrics")
    /\ \/ /\ Advance
          /\ sess' = [sess EXCEPT !.drift_metrics =
                 {runs[sess.backfill].log[k].value
                    : k \in DOMAIN runs[sess.backfill].log}]
          /\ reads' = reads \cup {Read("backfill.get_metrics", sess.backfill)}
       \/ Raises /\ UNCHANGED <<sess, reads>>
    /\ UNCHANGED <<nb, printed, files, plat, today, tick, sched, rows, lib>>

(***************************************************************************)
(* The specification.                                                      *)
(***************************************************************************)
\* records of data/diabetes2.csv: counts, ages and body-mass indices
SampleRows ==
    {[Pregnancies |-> 0, Age |-> 0,  BMI |-> <<0, 0>>],
     [Pregnancies |-> 1, Age |-> 2,  BMI |-> <<18, 0>>],
     [Pregnancies |-> 2, Age |-> 21, BMI |-> <<215, 1>>],
     [Pregnancies |-> 9, Age |-> 47, BMI |-> <<3, 0>>]}

\* the data files tried: one record, or two
DataFrames ==
    {<<r>> : r \in SampleRows}
        \cup {<<r1, r2>> : r1 \in SampleRows, r2 \in SampleRows}

\* the data file of the executions in which the clock moves
ClockFrame == <<[Pregnancies |-> 2, Age |-> 21, BMI |-> <<215, 1>>]>>

\* the longest wait before the backfill cell, in days and in ticks
MaxWaitDays == 7

MaxWait == MaxWaitDays * TicksPerDay

\* midnight does not fall in the loop and the backfill cell is run at once
NoSchedule == [midnight |-> Len(Weeknos), wait |-> 0]

\* midnight falls after pass midnight of the generation loop (after the
\* last: not in the loop); the backfill cell is run wait ticks after the
\* generation cell
Schedules == [midnight : DOMAIN Weeknos, wait : 0..MaxWait]

\* the lab's data files
LabFiles ==
    {File("data", "", "dir"), File("data", "diabetes.csv", "diabetes"),
     File("data", "diabetes2.csv", "diabetes2")}

\* n versions of 'diabetes_model' registered before the notebook is run
OldModels(n) ==
    [i \in 1..n |-> [name |-> "diabetes_model", version |-> i,
                     context |-> "earlier", AUC |-> <<1, 2>>,
                     Accuracy |-> <<1, 2>>, run |-> 0, path |-> ModelPath]]

\* what an execution of the drift notebook on an earlier day left behind when
\* it ended at the registration of the target dataset: the snapshot files,
\* the uploads and the registered baseline; day -1 stands for no earlier
\* execution
NoEarlier == 0 - 1

EarlierFiles(day, data) ==
    IF day = NoEarlier THEN LabFiles
    ELSE LabFiles \cup SnapshotFiles("data", day, data)

EarlierDatastore(day, data) ==
    IF day = NoEarlier THEN {}
    ELSE Upload(Upload({}, {f \in LabFiles : f.name # ""}, "diabetes-baseline"),
                SnapshotFiles("data", day, data), "diabetes-target")

EarlierDatasets(day) ==
    IF day = NoEarlier THEN << >>
    ELSE <<Registered(<< >>, Unregistered("diabetes-baseline/*.csv", "none"),
                      "diabetes baseline")>>

\* what an execution of the training notebook on the lab's files leaves on
\* the disk: the two training folders with the data file and the script
TrainedFiles ==
    LabFiles \cup
    UNION {{File(TrainingFolder(w), "", "dir"),
            File(TrainingFolder(w), "diabetes.csv", "diabetes"),
            File(TrainingFolder(w), "diabetes_training.py", ScriptText(w))}
              : w \in {1, 2}}

\* the source directory of a script started directly: script k and the data
Direct(k, content) ==
    {File("src", "diabetes_training.py", ScriptText(k)),
     File("src", "diabetes.csv", content)}

Init ==
    /\ nb \in {"training", "drift", "script"}
    /\ pc = 1
    /\ err = NoErr
    /\ started = {}
    /\ raised = {}
    /\ calls = << >>
    /\ printed = {}
    /\ reads = {}
    /\ sess = SessInit
    /\ monitors = << >>
    /\ IF nb = "training"
       THEN \E n \in 0..MaxOldModels : models = OldModels(n)
       ELSE models = << >>
    /\ IF nb = "drift"
       THEN /\ \/ \* the data, the days and the workspace vary, the clock
                  \* stands still
                  /\ computeTargets \in {{}, {ClusterName}}
                  /\ today \in 0..MaxToday
                  /\ rows \in DataFrames
                  /\ tick = 0
                  /\ sched = NoSchedule
                  /\ \E day \in {NoEarlier} \cup 0..today :
                        /\ files = EarlierFiles(day, rows)
                        /\ datastore = EarlierDatastore(day, rows)
                        /\ datasets = EarlierDatasets(day)
               \/ \* the clock moves: the time of day the notebook is run
                  \* at, midnight in the loop, the wait before the backfill
                  /\ computeTargets = {ClusterName}
                  /\ today = 0
                  /\ rows = ClockFrame
                  /\ tick \in 0..(TicksPerDay - 1)
                  /\ sched \in Schedules
                  /\ files = LabFiles
                  /\ datastore = {}
                  /\ datasets = << >>
       ELSE /\ computeTargets = {}
            /\ today = 0
            /\ tick = 0
            /\ sched = NoSchedule
            /\ rows = << >>
            /\ IF nb = "training"
               THEN files \in {LabFiles, TrainedFiles}
               ELSE files = LabFiles
            /\ datastore = {}
            /\ datasets = << >>
    /\ IF nb = "script"
       THEN \E k \in {1, 2} : \E a \in ArgvSet :
            \E c \in {"diabetes", "diabetes2"} :
               runs = <<NewRun("script", Direct(k, c), a)>>
       ELSE runs = << >>
    /\ lib = NoLib

\* a script started on its own has ended well and is started once more on
\* the same files, with the same command line or with none
RunAgain ==
    /\ nb = "script"
    /\ Len(runs) = 1
    /\ runs[1].status = "Completed"
    /\ \E a \in {runs[1].argv, << >>} :
          runs' = Append(runs, NewRun("script", runs[1].snapshot, a))
    /\ UNCHANGED <<ctl, sess, files, models, computeTargets, datastore,
                   datasets, monitors, today, tick, sched, rows, lib>>

Next ==
    \/ Connect
    \/ Makedirs \/ Copy \/ Writefile
    \/ EstimatorCtor \/ ExperimentCtor \/ Submit \/ Wait \/ Details
    \/ GetMetrics \/ GetFileNames \/ RegisterModel \/ ListModels
    \/ PipInstall \/ GetDefaultDatastore \/ UploadBaseline
    \/ BaselineFromFiles \/ RegisterBaseline
    \/ ReadCsv \/ Generate \/ UploadTarget \/ TargetFromFiles
    \/ RegisterTarget
    \/ Lookup \/ ProvisioningConfiguration \/ Create \/ ClusterWait
    \/ CreateFromDatasets \/ Backfill \/ BackfillDetails \/ BackfillWait
    \/ DriftMetrics
    \/ RunAgain
    \/ \E i \in DOMAIN runs :
          \/ S_GetContext(i) \/ S_ParseArgs(i) \/ S_SetReg(i) \/ S_ReadCsv(i)
          \/ S_Split(i) \/ S_LogReg(i) \/ S_Fit(i) \/ S_Accuracy(i)
          \/ S_LogAccuracy(i) \/ S_Auc(i) \/ S_LogAuc(i) \/ S_Makedirs(i)
          \/ S_Dump(i) \/ S_Complete(i)
          \/ PlatformStart(i) \/ PlatformFail(i)
          \/ BackfillFinalize(i) \/ BackfillFinish(i)

Spec == Init /\ [][Next]_vars

(***************************************************************************)
(* Helpers of the properties.                                              *)
(***************************************************************************)
\* the index of the drift notebook's statement op
DriftIdx(op) == CHOOSE j \in DOMAIN DriftNotebook : DriftNotebook[j].op = op

\* exceptions raised by statement op of the drift notebook
RaisedAt(op) ==
    {r \in raised : nb = "drift" /\ DriftNotebook[r.at].op = op}

CallOps == {calls[k].op : k \in DOMAIN calls}

(***************************************************************************)
(* C1.  Original claim: every failure of the compute-target lookup is      *)
(* caught in the cell and leads to the creation path; none ends the cell   *)
(* as an uncaught error.                                                   *)
(***************************************************************************)
C1_AnyLookupFailureCaught ==
    \A r \in RaisedAt("lookup") :
        /\ err.at # r.at
        /\ \/ pc = DriftIdx("provisioning_configuration")
           \/ DriftIdx("provisioning_configuration") \in started

(***************************************************************************)
(* C1, amended.  A lookup failure raised as ComputeTargetException is      *)
(* caught in the cell and leads to the creation path (the provisioning     *)
(* configuration is the next statement executed); a lookup failure of any  *)
(* other class is not caught: it ends the cell there and the creation path *)
(* is not entered.                                                         *)
(***************************************************************************)
C1_LookupFailure ==
    \A r \in RaisedAt("lookup") :
        IF r.exc = "ComputeTargetException"
        THEN /\ err.at # r.at
             /\ \/ pc = DriftIdx("provisioning_configuration")
                \/ DriftIdx("provisioning_configuration") \in started
        ELSE /\ err = r
             /\ pc = r.at
             /\ DriftIdx("provisioning_configuration") \notin started

\* a lookup raised ComputeTargetException and the cluster has been created
C1_Witness ==
    /\ \E r \in RaisedAt("lookup") : r.exc = "ComputeTargetException"
    /\ "ComputeTarget.create" \in CallOps
    /\ DriftIdx("cluster_wait") \in started
    /\ ClusterName \in computeTargets

(***************************************************************************)
(* C2.  When a statement of the creation path raises, the exception is     *)
(* printed, the cell ends without an error and the execution goes on with  *)
(* the monitor cell: the monitor creation is the next statement and        *)
(* nothing keeps it from being executed; no later statement of the         *)
(* creation path is executed.                                              *)
(***************************************************************************)
CreationPath == {"provisioning_configuration", "create", "cluster_wait"}

C2_CreationFailurePrinted ==
    \A op \in CreationPath : \A r \in RaisedAt(op) :
        /\ r \in printed
        /\ err.at # r.at
        /\ \A j \in started : DriftNotebook[j].cell = ComputeCell => j <= r.at
        /\ \/ DriftIdx("create_from_datasets") \in started
           \/ /\ pc = DriftIdx("create_from_datasets")
              /\ err = NoErr
              /\ ENABLED CreateFromDatasets

\* the creation raised an exception that is no ComputeTargetException, and
\* the monitor was created and backfilled all the same
C2_Witness ==
    /\ \E r \in RaisedAt("create") : r.exc = "OtherException"
    /\ "DataDriftDetector.create_from_datasets" \in CallOps
    /\ "monitor.backfill" \in CallOps
    /\ sess.backfill # 0

(***************************************************************************)
(* C3.  An exception raised by a statement outside the compute-target cell *)
(* is not caught: it is the error that ends the execution, at the          *)
(* statement that raised it, and no later statement of that cell has been  *)
(* executed.                                                               *)
(***************************************************************************)
C3_OtherFailuresUncaught ==
    \A r \in raised :
        ~(nb = "drift" /\ Program[r.at].cell = ComputeCell) =>
            /\ err = r
            /\ pc = r.at
            /\ r \notin printed
            /\ \A j \in started : Program[j].cell = Program[r.at].cell => j <= r.at

\* the baseline upload failed: the dataset of its cell was not registered;
\* or a submitted job's wait failed
C3_Witness ==
    /\ err # NoErr
    /\ Program[err.at].op \in {"upload_baseline", "wait"}
    /\ nb = "drift" => datasets = << >>
    /\ nb = "training" => runs # << >>

(***************************************************************************)
(* C4.  In one top-to-bottom execution each job-starting operation of a    *)
(* cell (experiment.submit of either estimator, ComputeTarget.create,      *)
(* monitor.backfill) is invoked at most once, whatever the platform        *)
(* reports.                                                                *)
(***************************************************************************)
JobStarting == {"experiment.submit", "ComputeTarget.create", "monitor.backfill"}

C4_NoRetry ==
    \A k1, k2 \in DOMAIN calls :
        (calls[k1].op \in JobStarting /\ calls[k1] = calls[k2]) => k1 = k2

\* a submission raised, or a submitted job failed, and the execution ended
C4_Witness ==
    /\ err # NoErr
    /\ \/ Program[err.at].op \in {"submit", "backfill"}
       \/ /\ Program[err.at].op = "wait"
          /\ runs[sess.run].status = "Failed"
    /\ \E k \in DOMAIN calls : calls[k].op \in JobStarting

(***************************************************************************)
(* C5.  Original claim: a run only moves submitted -> running ->           *)
(* completed/failed, and no statement of the repository (a notebook        *)
(* statement or a statement of a training script) takes part in a step     *)
(* that changes a run's status.                                            *)
(***************************************************************************)
C5_OnlyPlatformDrives ==
    [][\A i \in DOMAIN runs :
          runs'[i].status # runs[i].status =>
              /\ <<runs[i].status, runs'[i].status>> \in
                     {<<"Submitted", "Running">>, <<"Submitted", "Failed">>,
                      <<"Running", "Completed">>, <<"Running", "Failed">>}
              /\ UNCHANGED <<pc, started, calls, sess>>
              /\ runs'[i].spc = runs[i].spc]_vars

(***************************************************************************)
(* C5, amended.  A run's status only moves forward, submitted -> running   *)
(* -> (finalizing ->) completed/failed.  No notebook statement takes part  *)
(* in a step that changes a run's status: the notebook only waits.  The    *)
(* one statement of the repository that changes a status is the training   *)
(* script's run.complete(), which moves its own run from running to        *)
(* completed; every other change is the platform's.                        *)
(***************************************************************************)
C5_RunTransitions ==
    [][\A i \in DOMAIN runs :
          runs'[i].status # runs[i].status =>
              /\ <<runs[i].status, runs'[i].status>> \in
                     {<<"Submitted", "Running">>, <<"Submitted", "Failed">>,
                      <<"Running", "Finalizing">>, <<"Running", "Completed">>,
                      <<"Running", "Failed">>, <<"Finalizing", "Completed">>}
              /\ UNCHANGED <<pc, started, calls, sess>>
              /\ runs'[i].spc # runs[i].spc =>
                     /\ SAt(i, "complete")
                     /\ runs'[i].status = "Completed"
              /\ runs'[i].spc = runs[i].spc => runs'[i].by = "platform"]_vars

\* a submitted training run was completed by its script's run.complete(),
\* and the notebook's wait returned after it
C5_Witness ==
    /\ nb = "training"
    /\ \E i \in DOMAIN runs :
          /\ runs[i].status = "Completed"
          /\ runs[i].by = "script"
          /\ runs[i].spc = Len(ScriptProgram(ScriptOf(runs[i]))) + 1
    /\ \E k \in DOMAIN calls : calls[k].op = "run.get_metrics"

(***************************************************************************)
(* C6.  Original claim: every read of a run's results (run.get_metrics,    *)
(* run.get_file_names, run.register_model, backfill.get_metrics) is made   *)
(* when the run is in a terminal state, completed or failed.               *)
(***************************************************************************)
TerminalStates == {"Completed", "Failed"}

C6_ReadsAfterTerminal ==
    \A r \in reads : r.status \in TerminalStates

(***************************************************************************)
(* C6, amended.  Every read of a run's results is made after the wait on   *)
(* that run has been called, when the run is no longer submitted or        *)
(* running; the run may still be finalizing, for wait_for_completion does  *)
(* not wait for post-processing.                                           *)
(***************************************************************************)
C6_ReadsAfterWait ==
    \A r \in reads :
        /\ r.status \notin {"Submitted", "Running"}
        /\ \E k \in DOMAIN calls :
              calls[k].op = (IF runs[r.run].kind = "backfill"
                             THEN "backfill.wait_for_completion"
                             ELSE "run.wait_for_completion")

\* the drift metrics were read of a backfill that was still finalizing
C6_Witness ==
    \E r \in reads :
        /\ r.op = "backfill.get_metrics"
        /\ r.status = "Finalizing"
        /\ sess.drift_metrics # {}

(***************************************************************************)
(* Helpers of the properties of the training scripts.                      *)
(***************************************************************************)
ScriptRuns == {i \in DOMAIN runs : runs[i].kind = "script"}

\* run i was given --reg_rate with a word that is a float
RegSupplied(i) ==
    /\ Len(runs[i].argv) = 2
    /\ runs[i].argv[1] = "--reg_rate"
    /\ FloatOf(runs[i].argv[2]) # NoVal

RegLogged(i) == MetricOf(runs[i], "Regularization Rate")

\* the place of statement op in the script of run r
StmtIdx(r, op) ==
    CHOOSE k \in DOMAIN ScriptProgram(ScriptOf(r)) :
        ScriptProgram(ScriptOf(r))[k] = op

(***************************************************************************)
(* C7.  Original claim: whichever of the two scripts a run executes, when  *)
(* --reg_rate is supplied with a value v the run logs v as                  *)
(* 'Regularization Rate' and trains with C = 1/v.                          *)
(***************************************************************************)
C7_BothScriptsUseFlag ==
    \A i \in ScriptRuns :
        RegSupplied(i) =>
            LET v == FloatOf(runs[i].argv[2])
            IN  /\ HasMetric(runs[i], "Regularization Rate") => RegLogged(i) = v
                /\ runs[i].trained => runs[i].C[1] * v[1] = runs[i].C[2] * v[2]

(***************************************************************************)
(* C7, amended.  Only the second (parameterized) script reads --reg_rate:  *)
(* supplied with a value v it logs v as 'Regularization Rate' and, for     *)
(* v > 0, trains with C = 1/v; for v = 0 or v < 0 it logs v and then fails *)
(* at the training statement.  The first script reads no command line:     *)
(* whatever it is given, it logs 0.01 and trains with C = 100.             *)
(***************************************************************************)
C7_RegRate ==
    \A i \in ScriptRuns :
        LET r == runs[i]
        IN  IF ScriptOf(r) = 1
            THEN /\ HasMetric(r, "Regularization Rate") => RegLogged(i) = <<1, 100>>
                 /\ r.trained => r.C = <<100, 1>>
            ELSE RegSupplied(i) =>
                    LET v == FloatOf(r.argv[2])
                    IN  /\ HasMetric(r, "Regularization Rate") => RegLogged(i) = v
                        /\ r.trained => v[1] > 0 /\ r.C = <<v[2], v[1]>>
                        /\ v[1] <= 0 => ~r.trained /\ r.sexit # "ok"

\* the second script, given --reg_rate 0.1, logged 0.1, trained with C = 10
\* and ended well
C7_Witness ==
    \E i \in ScriptRuns :
        /\ ScriptOf(runs[i]) = 2
        /\ runs[i].argv = <<"--reg_rate", "0.1">>
        /\ runs[i].sexit = "ok"
        /\ RegLogged(i) = <<1, 10>>
        /\ runs[i].C = <<10, 1>>

(***************************************************************************)
(* C8.  A run of the parameterized script given no --reg_rate uses 0.01:   *)
(* it logs 0.01 and trains with C = 100.  Given --reg_rate with a word     *)
(* that is a float, the rate it uses is that float.  Given a word that is  *)
(* no float, it ends with an error at the parsing of the command line:     *)
(* no data has been loaded, no metric has been logged and no rate is set.  *)
(***************************************************************************)
C8_RegRateParsing ==
    \A i \in ScriptRuns :
        LET r == runs[i]
            parsed == r.spc > StmtIdx(r, "parse_args")
        IN  ScriptOf(r) = 2 =>
              /\ r.argv = << >> =>
                    /\ parsed => r.reg = <<1, 100>>
                    /\ HasMetric(r, "Regularization Rate") =>
                          RegLogged(i) = <<1, 100>>
                    /\ r.trained => r.C = <<100, 1>>
              /\ RegSupplied(i) => (parsed => r.reg = FloatOf(r.argv[2]))
              /\ (Len(r.argv) = 2 /\ r.argv[1] = "--reg_rate"
                     /\ FloatOf(r.argv[2]) = NoVal) =>
                    /\ ~parsed
                    /\ ~r.loaded
                    /\ r.log = << >>
                    /\ r.reg = NoVal
                    /\ r.sexit # "ok"

\* the parameterized script was given --reg_rate abc and ended with an error
\* when it parsed its command line, and the platform reported the run as
\* failed
C8_Witness ==
    \E i \in ScriptRuns :
        /\ ScriptOf(runs[i]) = 2
        /\ runs[i].argv = <<"--reg_rate", "abc">>
        /\ runs[i].sexit = "error"
        /\ runs[i].spc = StmtIdx(runs[i], "parse_args")
        /\ runs[i].status = "Failed"

(***************************************************************************)
(* C9.  A script that has ended well has logged exactly three metrics,     *)
(* 'Regularization Rate', 'Accuracy' and 'AUC', each once; the three are   *)
(* logged already when run.complete() is the next statement, and at no     *)
(* time has a run logged anything but a prefix of the three.               *)
(***************************************************************************)
ThreeMetrics == <<"Regularization Rate", "Accuracy", "AUC">>

C9_ThreeMetrics ==
    \A i \in ScriptRuns :
        /\ runs[i].sexit = "ok" => MetricNames(runs[i]) = ThreeMetrics
        /\ SAt(i, "complete") => MetricNames(runs[i]) = ThreeMetrics
        /\ Len(runs[i].log) <= 3
        /\ MetricNames(runs[i]) = SubSeq(ThreeMetrics, 1, Len(runs[i].log))

\* a script has ended well with three metrics logged, the computed ones
\* being the values of its accuracy and AUC
C9_Witness ==
    \E i \in ScriptRuns :
        /\ runs[i].sexit = "ok"
        /\ Len(runs[i].log) = 3
        /\ MetricOf(runs[i], "Accuracy") = runs[i].acc
        /\ MetricOf(runs[i], "AUC") = runs[i].auc

(***************************************************************************)
(* C10.  A script that has ended well has written exactly one file,        *)
(* outputs/diabetes_model.pkl, and the file is there already when          *)
(* run.complete() is the next statement; a run that has not reached the    *)
(* dump, failed or not, has written no file.                               *)
(***************************************************************************)
C10_OneArtifact ==
    \A i \in ScriptRuns :
        /\ runs[i].sexit = "ok" => runs[i].files = {"outputs/diabetes_model.pkl"}
        /\ SAt(i, "complete") => runs[i].files = {"outputs/diabetes_model.pkl"}
        /\ runs[i].spc <= StmtIdx(runs[i], "dump") => runs[i].files = {}

\* a script started on its own has ended well with its model file written
C10_Witness ==
    \E i \in ScriptRuns :
        /\ nb = "script"
        /\ runs[i].sexit = "ok"
        /\ runs[i].status = "Completed"
        /\ runs[i].files = {ModelPath}

(***************************************************************************)
(* C11.  In each training workflow, when experiment.submit is the next     *)
(* statement or has been executed, the workflow's folder exists and holds  *)
(* the copy of diabetes.csv and the workflow's diabetes_training.py; when  *)
(* submit is the next statement the estimator's source_directory is that   *)
(* folder; and every submitted run was given both files.                   *)
(***************************************************************************)
C11_FolderReadyAtSubmit ==
    nb = "training" =>
        /\ \A j \in DOMAIN TrainingNotebook :
              (TrainingNotebook[j].op = "submit" /\ (pc = j \/ j \in started)) =>
                  LET d == TrainingFolder(TrainingNotebook[j].w)
                  IN  /\ Exists(files, d, "")
                      /\ Exists(files, d, "diabetes.csv")
                      /\ ContentOf(files, d, "diabetes.csv")
                            = ContentOf(files, "data", "diabetes.csv")
                      /\ Exists(files, d, "diabetes_training.py")
                      /\ ContentOf(files, d, "diabetes_training.py")
                            = ScriptText(TrainingNotebook[j].w)
                      /\ pc = j => sess.estimator.source_directory = d
                      /\ \A k \in 1..(j - 1) :
                            (/\ TrainingNotebook[k].w = TrainingNotebook[j].w
                             /\ TrainingNotebook[k].op \in
                                   {"makedirs", "copy", "writefile"})
                                => k \in started
        /\ \A i \in DOMAIN runs :
              /\ Exists(runs[i].snapshot, "src", "diabetes.csv")
              /\ Exists(runs[i].snapshot, "src", "diabetes_training.py")
              /\ ScriptOf(runs[i]) = i

\* both workflows have submitted their run, each from its own folder
C11_Witness ==
    /\ nb = "training"
    /\ Len(runs) = 2
    /\ ScriptOf(runs[2]) = 2
    /\ sess.estimator.source_directory = "diabetes-training-params"
    /\ Exists(files, "diabetes-training-params", "diabetes_training.py")

(***************************************************************************)
(* C12.  The versions of 'diabetes_model' held by the workspace are        *)
(* pairwise distinct and each registration's version is greater than       *)
(* every earlier one; when the notebook has been executed to its end the   *)
(* workspace holds a version registered by the 'Estimator' workflow and a  *)
(* later, higher one registered by the 'Parameterized SKLearn Estimator'   *)
(* workflow.                                                               *)
(***************************************************************************)
C12_NewVersionEachTime ==
    /\ \A k1, k2 \in DOMAIN models :
          (k1 < k2 /\ models[k1].name = models[k2].name) =>
              models[k1].version < models[k2].version
    /\ (nb = "training" /\ pc = Len(TrainingNotebook) + 1) =>
          \E k1, k2 \in DOMAIN models :
              /\ k1 < k2
              /\ models[k1].context = "Estimator"
              /\ models[k2].context = "Parameterized SKLearn Estimator"
              /\ models[k1].name = "diabetes_model"
              /\ models[k2].name = "diabetes_model"
              /\ models[k1].version < models[k2].version

\* the notebook was executed to its end in a workspace that held a version
\* of the model already: it now holds versions 1, 2 and 3
C12_Witness ==
    /\ nb = "training"
    /\ pc = Len(TrainingNotebook) + 1
    /\ Len(models) = 3
    /\ models[1].context = "earlier"
    /\ models[3].version = 3

(***************************************************************************)
(* C13.  Every model registered by the notebook points to the file         *)
(* outputs/diabetes_model.pkl that a completed run has written, and its    *)
(* properties 'AUC' and 'Accuracy' are the values that same run logged     *)
(* under these names; the model tagged 'Parameterized SKLearn Estimator'   *)
(* is of the run of the parameterized script, the one tagged 'Estimator'   *)
(* of the run of the first script.                                         *)
(***************************************************************************)
LoggedAs(r, n, v) ==
    \E j \in DOMAIN r.log : r.log[j].name = n /\ r.log[j].value = v

C13_ModelOfItsRun ==
    \A k \in DOMAIN models :
        models[k].context # "earlier" =>
            /\ models[k].run \in DOMAIN runs
            /\ LET r == runs[models[k].run]
               IN  /\ models[k].path = "outputs/diabetes_model.pkl"
                   /\ models[k].path \in r.files
                   /\ r.status = "Completed"
                   /\ LoggedAs(r, "AUC", models[k].AUC)
                   /\ LoggedAs(r, "Accuracy", models[k].Accuracy)
                   /\ models[k].AUC = r.auc
                   /\ models[k].Accuracy = r.acc
                   /\ models[k].context =
                         (IF ScriptOf(r) = 1 THEN "Estimator"
                          ELSE "Parameterized SKLearn Estimator")

\* two models were registered, of two runs whose metrics differ
C13_Witness ==
    /\ nb = "training"
    /\ \E k1, k2 \in DOMAIN models :
          /\ models[k1].run = 1
          /\ models[k2].run = 2
          /\ models[k1].AUC # models[k2].AUC
          /\ models[k1].Accuracy # models[k2].Accuracy
          /\ models[k2].AUC # models[k2].Accuracy

(***************************************************************************)
(* C14.  Of any two snapshots the generation loop has written, the one     *)
(* with the later date holds, record by record, a Pregnancies, an Age and  *)
(* a BMI that are not below those of the one with the earlier date; the    *)
(* files written hold these snapshots.                                     *)
(***************************************************************************)
RECURSIVE Pow10(_)
Pow10(e) == IF e = 0 THEN 1 ELSE 10 * Pow10(e - 1)

\* a <= b for BMIs <<n, e>> standing for n / 10^e
BMILeq(a, b) ==
    IF a[2] <= b[2] THEN a[1] * Pow10(b[2] - a[2]) <= b[1]
    ELSE a[1] <= b[1] * Pow10(a[2] - b[2])

C14_DriftMonotonic ==
    nb = "drift" =>
        \A a, b \in DOMAIN sess.written :
            LET old == sess.written[a]
                new == sess.written[b]
            IN  /\ File("data", old.name, ToString(old.data)) \in files
                /\ old.date < new.date =>
                      \A j \in DOMAIN old.data :
                          /\ old.data[j].Pregnancies <= new.data[j].Pregnancies
                          /\ old.data[j].Age <= new.data[j].Age
                          /\ BMILeq(old.data[j].BMI, new.data[j].BMI)

\* six snapshots of two records were written; in the newest the record
\* (2, 21, 21.5) has become (8, 62, 21.5 * 1.1^6)
C14_Witness ==
    /\ nb = "drift"
    /\ Len(sess.written) = 6
    /\ Len(rows) = 2
    /\ rows[1] = [Pregnancies |-> 2, Age |-> 21, BMI |-> <<215, 1>>]
    /\ \E k \in DOMAIN sess.written :
          /\ sess.written[k].date = today
          /\ sess.written[k].data[1].Pregnancies = 8
          /\ sess.written[k].data[1].Age = 62
          /\ sess.written[k].data[1].BMI = <<215 * 1771561, 7>>

(***************************************************************************)
(* C15.  Once the generation-and-upload cell has uploaded its files,       *)
(* whatever executions came before and on whatever days, the datastore     *)
(* path diabetes-target, which the target dataset globs, holds exactly six *)
(* snapshot files: those of the six weeks that end today.                  *)
(***************************************************************************)
TargetFiles == {f \in datastore : f.dir = "diabetes-target"}

C15_ExactlySixSnapshots ==
    (nb = "drift" /\ pc > DriftIdx("upload_target")) =>
        /\ Cardinality(TargetFiles) = 6
        /\ {f.name : f \in TargetFiles} =
              {sess.file_paths[k] : k \in DOMAIN sess.file_paths}

(***************************************************************************)
(* C16.  A drift monitor exists only when a baseline and a target dataset  *)
(* have been registered in this execution, and it binds the handles these  *)
(* two registrations returned (the newest versions of 'diabetes baseline'  *)
(* and of 'diabetes target', the latter with the timestamp column 'date'), *)
(* the features Pregnancies, Age and BMI, frequency 'Week', threshold 0.3  *)
(* and latency 24; monitor.backfill is called, and a backfill run exists,  *)
(* only after the monitor has been created.                                *)
(***************************************************************************)
\* the newest registered version of the dataset named n
Newest(n) ==
    datasets[CHOOSE j \in DOMAIN datasets :
                /\ datasets[j].name = n
                /\ \A k \in DOMAIN datasets : datasets[k].name = n => k <= j]

\* the places in the log of calls of the calls of operation op
CallsOf(op) == {k \in DOMAIN calls : calls[k].op = op}

C16_MonitorAfterDatasets ==
    nb = "drift" =>
        /\ \A k \in DOMAIN monitors :
              LET mon == monitors[k]
              IN  /\ Cardinality(CallsOf("Dataset.register")) = 2
                  /\ \A c \in CallsOf("DataDriftDetector.create_from_datasets") :
                        \A d \in CallsOf("Dataset.register") : d < c
                  /\ \E j \in DOMAIN datasets : datasets[j].name = "diabetes baseline"
                  /\ \E j \in DOMAIN datasets : datasets[j].name = "diabetes target"
                  /\ mon.baseline = Newest("diabetes baseline")
                  /\ mon.target = Newest("diabetes target")
                  /\ mon.baseline.version >= 1
                  /\ mon.target.version >= 1
                  /\ mon.target.timestamp = "date"
                  /\ mon.feature_list = <<"Pregnancies", "Age", "BMI">>
                  /\ mon.frequency = "Week"
                  /\ mon.drift_threshold = <<3, 10>>
                  /\ mon.latency = 24
        /\ \A b \in CallsOf("monitor.backfill") :
              /\ monitors # << >>
              /\ sess.monitor \in DOMAIN monitors
              /\ \E c \in CallsOf("DataDriftDetector.create_from_datasets") : c < b
        /\ (\E i \in DOMAIN runs : runs[i].kind = "backfill") => monitors # << >>

\* in a workspace that held a baseline version already, the monitor was
\* created over version 2 of the baseline and backfilled
C16_Witness ==
    /\ nb = "drift"
    /\ Len(monitors) = 1
    /\ monitors[1].baseline.version = 2
    /\ monitors[1].target.version = 1
    /\ \E i \in DOMAIN runs : runs[i].kind = "backfill"

(***************************************************************************)
(* C17.  Two executions of a training script that read the same data and   *)
(* use the same regularization rate log the same 'Accuracy' and the same   *)
(* 'AUC'.                                                                  *)
(***************************************************************************)
C17_SameInputsSameMetrics ==
    \A i, j \in ScriptRuns :
        (/\ runs[i].loaded /\ runs[j].loaded
         /\ runs[i].data = runs[j].data
         /\ runs[i].reg # NoVal
         /\ runs[i].reg = runs[j].reg) =>
            \A a \in DOMAIN runs[i].log : \A b \in DOMAIN runs[j].log :
                (/\ runs[i].log[a].name = runs[j].log[b].name
                 /\ runs[i].log[a].name \in {"Accuracy", "AUC"}) =>
                    runs[i].log[a].value = runs[j].log[b].value

\* the parameterized script has run twice to its end on the same data, once
\* given --reg_rate 1e-2 and once given nothing, and has twice logged the
\* same accuracy and the same AUC, neither of them 0
C17_Witness ==
    /\ Len(runs) = 2
    /\ runs[1].argv = <<"--reg_rate", "1e-2">>
    /\ runs[2].argv = << >>
    /\ runs[1].sexit = "ok"
    /\ runs[2].sexit = "ok"
    /\ LoggedAs(runs[1], "Accuracy", runs[2].acc)
    /\ LoggedAs(runs[2], "AUC", runs[1].auc)
    /\ runs[1].acc[1] > 0
    /\ runs[1].auc[1] > 0

(***************************************************************************)
(* C18.  A logged 'Accuracy' is the number of the test set's records whose *)
(* prediction equals their label, divided by the number of the test set's  *)
(* records; the test set is not empty and the value lies in [0, 1].        *)
(***************************************************************************)
C18_AccuracyIsShare ==
    \A i \in ScriptRuns : \A a \in DOMAIN runs[i].log :
        runs[i].log[a].name = "Accuracy" =>
            LET r    == runs[i]
                v    == r.log[a].value
                hits == Cardinality({j \in DOMAIN r.y_test : r.y_hat[j] = r.y_test[j]})
            IN  /\ Len(r.y_test) > 0
                /\ DOMAIN r.y_hat = DOMAIN r.y_test
                /\ r.y_test = TestLabels(Diabetic(r.data), 0)
                /\ v[2] > 0
                /\ v[1] * Len(r.y_test) = hits * v[2]
                /\ 0 <= v[1] /\ v[1] <= v[2]

\* two of three test records were predicted right and 2/3 was logged
C18_Witness ==
    \E i \in ScriptRuns :
        /\ LoggedAs(runs[i], "Accuracy", <<2, 3>>)
        /\ Len(runs[i].y_test) = 3
        /\ Cardinality({j \in 1..3 : runs[i].y_hat[j] = runs[i].y_test[j]}) = 2

(***************************************************************************)
(* C19.  A logged 'AUC' lies in [0, 1] and is the area under the ROC curve *)
(* of the test labels against the class-1 column (index 1) of the          *)
(* predicted probabilities: the share of the pairs of a class-1 and a      *)
(* class-0 test record in which the class-1 record has the higher class-1  *)
(* probability, ties counting half.                                        *)
(***************************************************************************)
C19_AucOfPositiveColumn ==
    \A i \in ScriptRuns : \A a \in DOMAIN runs[i].log :
        runs[i].log[a].name = "AUC" =>
            LET r     == runs[i]
                v     == r.log[a].value
                pairs == {p \in (DOMAIN r.y_test) \X (DOMAIN r.y_test) :
                             r.y_test[p[1]] = 1 /\ r.y_test[p[2]] = 0}
                wins  == {p \in pairs : r.y_scores[p[1]][2] > r.y_scores[p[2]][2]}
                ties  == {p \in pairs : r.y_scores[p[1]][2] = r.y_scores[p[2]][2]}
            IN  /\ pairs # {}
                /\ DOMAIN r.y_scores = DOMAIN r.y_test
                /\ v[2] > 0
                /\ 0 <= v[1] /\ v[1] <= v[2]
                /\ v[1] * 2 * Cardinality(pairs) =
                      (2 * Cardinality(wins) + Cardinality(ties)) * v[2]

\* an AUC of 3/4 was logged although the hard predictions rank no class-1
\* record above a class-0 record
C19_Witness ==
    \E i \in ScriptRuns :
        /\ LoggedAs(runs[i], "AUC", <<3, 4>>)
        /\ \A j, k \in DOMAIN runs[i].y_test :
              (runs[i].y_test[j] = 1 /\ runs[i].y_test[k] = 0) =>
                  runs[i].y_hat[j] <= runs[i].y_hat[k]

(***************************************************************************)
(* C20.  The workspace handle ws is bound once, by the notebook's          *)
(* connection cell (Workspace.from_config), and no step binds it again or  *)
(* changes it: Workspace.from_config is called at most once in an          *)
(* execution and every other step leaves ws as it found it.                *)
(***************************************************************************)
C20_WorkspaceHandleOnce ==
    [][/\ sess'.ws # sess.ws =>
             /\ At("connect")
             /\ sess.ws = "unbound"
             /\ sess'.ws = "ws"
       /\ Cardinality({k \in DOMAIN calls' :
                          calls'[k].op = "Workspace.from_config"}) <= 1]_vars

\* a notebook ran to its end: ws was bound by the first call and is still
\* that handle after the calls that were given it
C20_Witness ==
    /\ nb \in {"training", "drift"}
    /\ pc = Len(Program) + 1
    /\ sess.ws = "ws"
    /\ Cardinality(CallsOf("Workspace.from_config")) = 1
    /\ \E k \in CallsOf("Workspace.from_config") : k < Len(calls)
    /\ Len(calls) > 5

(***************************************************************************)
(* Helpers of the properties of the control flow.                          *)
(***************************************************************************)
\* a notebook was executed from its first statement to its last and no error
\* stopped it
Finished ==
    /\ nb \in {"training", "drift"}
    /\ pc = Len(Program) + 1
    /\ err = NoErr

\* the operations invoked so far, in order
OpsInvoked == [k \in DOMAIN calls |-> calls[k].op]

OpsOutsideComputeCell ==
    LET Outside(call) == call.cell # ComputeCell
        kept == SelectSeq(calls, Outside)
    IN  [k \in DOMAIN kept |-> kept[k].op]

OpsOfComputeCell ==
    LET Inside(call) == call.cell = ComputeCell
        kept == SelectSeq(calls, Inside)
    IN  [k \in DOMAIN kept |-> kept[k].op]

\* what an execution of the training notebook invokes
TrainingOps ==
    <<"Workspace.from_config",
      "Estimator", "Experiment", "experiment.submit", "run.wait_for_completion",
      "RunDetails.show",
      "run.get_metrics", "run.get_file_names",
      "run.get_metrics", "run.get_metrics", "run.register_model", "Model.list",
      "SKLearn", "Experiment", "experiment.submit", "RunDetails.show",
      "run.wait_for_completion",
      "run.get_metrics", "run.get_file_names",
      "run.get_metrics", "run.get_metrics", "run.register_model", "Model.list">>

\* what an execution of the drift notebook invokes before and after the
\* compute-target cell
DriftOpsBefore ==
    <<"Workspace.from_config",
      "ws.get_default_datastore", "default_ds.upload_files",
      "Dataset.Tabular.from_delimited_files", "Dataset.register",
      "default_ds.upload_files", "Dataset.Tabular.from_delimited_files",
      "Dataset.register">>

DriftOpsAfter ==
    <<"DataDriftDetector.create_from_datasets",
      "monitor.backfill", "RunDetails.show", "backfill.wait_for_completion",
      "backfill.get_metrics">>

\* the compute-target cell's operations: the lookup, then the creation path
CreationOps ==
    <<"ComputeTarget", "AmlCompute.provisioning_configuration",
      "ComputeTarget.create", "training_cluster.wait_for_completion">>

(***************************************************************************)
(* C21.  Original claim: there is no branching; whatever the platform      *)
(* reports, an execution that no error stops invokes one and the same      *)
(* sequence of operations (the one invoked when the cluster is found).     *)
(***************************************************************************)
C21_SameSequenceAlways ==
    Finished =>
        OpsInvoked = IF nb = "training" THEN TrainingOps
                     ELSE DriftOpsBefore \o <<"ComputeTarget">> \o DriftOpsAfter

(***************************************************************************)
(* C21.  Amended claim: an execution that no error stops invokes the same  *)
(* sequence of operations in every cell but the compute-target cell of the *)
(* drift notebook.  That cell branches on the lookup: found, it invokes    *)
(* nothing else; ComputeTargetException, it goes on with the creation      *)
(* path up to the first operation there that fails, whose failure is       *)
(* printed.                                                                *)
(***************************************************************************)
C21_LinearButComputeCell ==
    Finished =>
        /\ nb = "training" => OpsInvoked = TrainingOps
        /\ nb = "drift" =>
              /\ OpsOutsideComputeCell = DriftOpsBefore \o DriftOpsAfter
              /\ \E n \in 1..Len(CreationOps) :
                    OpsOfComputeCell = SubSeq(CreationOps, 1, n)
              /\ (OpsOfComputeCell = <<"ComputeTarget">>) <=>
                    (RaisedAt("lookup") = {})
              /\ (Len(OpsOfComputeCell) \in {2, 3}) =>
                    \E p \in printed :
                        DriftNotebook[p.at].cell = ComputeCell

\* the cluster was not found and was created: three more operations than in
\* an execution that found it
C21_Witness ==
    /\ Finished
    /\ nb = "drift"
    /\ OpsOfComputeCell = CreationOps
    /\ OpsInvoked = DriftOpsBefore \o CreationOps \o DriftOpsAfter
    /\ ClusterName \in computeTargets

\* the operations invoked so far in cell c, in order
OpsOfCell(c) ==
    LET Inside(call) == call.cell = c
        kept == SelectSeq(calls, Inside)
    IN  [k \in DOMAIN kept |-> kept[k].op]

\* the cells of the notebook
Cells == {Program[j].cell : j \in DOMAIN Program}

\* the execution has left cell c behind
Past(c) == \A j \in DOMAIN Program : Program[j].cell = c => j < pc

(***************************************************************************)
(* C22.  Original claim: each code cell invokes exactly one operation of   *)
(* the external platform.                                                  *)
(***************************************************************************)
C22_OneOperationPerCell ==
    \A c \in Cells : Past(c) => Len(OpsOfCell(c)) = 1

(***************************************************************************)
(* C22.  Amended claim: the operations are invoked one after the other in  *)
(* the order of the cells, a cell's all before any of a later cell, and a  *)
(* cell invokes none, one or several: the model-registration cell invokes  *)
(* run.get_metrics twice, run.register_model and Model.list, the baseline  *)
(* cell get_default_datastore, upload_files, from_delimited_files and      *)
(* register, and the folder and script cells none.                         *)
(***************************************************************************)
C22_CellsInvokeInOrder ==
    /\ \A k, l \in DOMAIN calls : k < l => calls[k].cell <= calls[l].cell
    /\ (nb = "training" /\ Past(7)) =>
          OpsOfCell(7) = <<"run.get_metrics", "run.get_metrics",
                           "run.register_model", "Model.list">>
    /\ (nb = "training" /\ Past(3)) =>
          OpsOfCell(2) = << >> /\ OpsOfCell(3) = << >>
    /\ (nb = "drift" /\ Past(3)) =>
          OpsOfCell(3) = <<"ws.get_default_datastore", "default_ds.upload_files",
                           "Dataset.Tabular.from_delimited_files",
                           "Dataset.register">>

\* the first model was registered and listed
C22_Witness ==
    /\ nb = "training"
    /\ Past(7)
    /\ Len(models) > 0
    /\ Len(OpsOfCell(7)) = 4
    /\ Len(OpsOfCell(4)) = 4
    /\ Len(OpsOfCell(2)) = 0

(***************************************************************************)
(* C23.  When the lookup of the compute target succeeds the existing       *)
(* cluster is used: the step binds training_cluster to it, leaves the      *)
(* workspace's compute targets as they were and goes to the next cell, and *)
(* in no later state has the cell attempted a creation.                    *)
(***************************************************************************)
LookupFound ==
    /\ nb = "drift"
    /\ DriftIdx("lookup") \in started
    /\ RaisedAt("lookup") = {}

C23_ExistingClusterUsed ==
    [][/\ (At("lookup") /\ pc' # pc /\ raised' = raised) =>
             /\ computeTargets' = computeTargets
             /\ ClusterName \in computeTargets
             /\ sess'.training_cluster = ClusterName
             /\ pc' = DriftIdx("create_from_datasets")
             /\ calls' = Append(calls, [cell |-> ComputeCell, op |-> "ComputeTarget"])
       /\ LookupFound =>
             /\ computeTargets' = computeTargets
             /\ OpsOfCell(ComputeCell) = <<"ComputeTarget">>
             /\ DriftIdx("create") \notin started']_vars

\* the cluster was found and the monitor was created on it
C23_Witness ==
    /\ LookupFound
    /\ Len(monitors) = 1
    /\ computeTargets = {ClusterName}
    /\ sess.training_cluster = ClusterName
    /\ "ComputeTarget.create" \notin CallOps

(***************************************************************************)
(* C24.  Whenever an execution of the drift notebook has gone on to create *)
(* the monitor, or to trigger the backfill, a compute target with the name *)
(* cluster_name given to the monitor exists in the workspace.              *)
(***************************************************************************)
C24_ComputeTargetExists ==
    nb = "drift" =>
        \A k \in DOMAIN calls :
            calls[k].op \in {"DataDriftDetector.create_from_datasets",
                             "monitor.backfill"} =>
                sess.cluster_name \in computeTargets

(***************************************************************************)
(* C26.  The drift is cumulative: in the k-th snapshot written (k = 1 the  *)
(* oldest date, k = 6 the newest) every record has the Pregnancies of the  *)
(* source plus k and the Age got from the source's by k times a -> 1.2 a   *)
(* rounded to an integer; the file of that date holds these records, the   *)
(* oldest snapshot already differs from the source and a newer snapshot    *)
(* has the larger Pregnancies.                                             *)
(***************************************************************************)
RECURSIVE AgeAfter(_, _)
AgeAfter(a, k) ==
    IF k = 0 THEN a
    ELSE (12 * AgeAfter(a, k - 1) + 5) \div 10

C26_CumulativeDrift ==
    (nb = "drift" /\ sess.written # << >>) =>
        /\ DOMAIN sess.written = 1..6
        /\ \A k \in 1..6 :
              LET w == sess.written[k]
              IN  /\ DOMAIN w.data = DOMAIN rows
                  /\ \A j \in DOMAIN rows :
                        /\ w.data[j].Pregnancies = rows[j].Pregnancies + k
                        /\ w.data[j].Age = AgeAfter(rows[j].Age, k)
                  /\ w.data # rows
                  /\ File("data", w.name, ToString(w.data)) \in files
                  /\ \A l \in 1..6 :
                        k < l => /\ w.date < sess.written[l].date
                                 /\ \A j \in DOMAIN rows :
                                       w.data[j].Pregnancies <
                                           sess.written[l].data[j].Pregnancies

\* a record of 2 pregnancies at age 21 is written with 3 at 25 in the oldest
\* snapshot and with 8 at 62 in the newest
C26_Witness ==
    /\ nb = "drift"
    /\ sess.written # << >>
    /\ \E j \in DOMAIN rows :
          /\ rows[j].Pregnancies = 2 /\ rows[j].Age = 21
          /\ sess.written[1].data[j].Pregnancies = 3
          /\ sess.written[1].data[j].Age = 25
          /\ sess.written[3].data[j].Age = 36
          /\ sess.written[6].data[j].Pregnancies = 8
          /\ sess.written[6].data[j].Age = 62

(***************************************************************************)
(* C29.  Setting a training folder up again is idempotent: a folder that   *)
(* is there does not keep os.makedirs or the copy from succeeding, a       *)
(* folder-setup statement that finds the folder and its diabetes.csv       *)
(* leaves the folder's contents as they were, and no statement of the      *)
(* second workflow's setup changes the first workflow's folder.            *)
(***************************************************************************)
SetupOps == {"makedirs", "copy", "writefile"}

\* the folder of workflow w is set up: it holds a copy of the data file
IsSetUp(fs, w) ==
    /\ Exists(fs, TrainingFolder(w), "")
    /\ Exists(fs, TrainingFolder(w), "diabetes.csv")
    /\ ContentOf(fs, TrainingFolder(w), "diabetes.csv") =
          ContentOf(fs, "data", "diabetes.csv")

C29_SetupIdempotent ==
    [][(nb = "training" /\ err = NoErr /\ pc \in DOMAIN Program
           /\ Cur.op \in SetupOps) =>
          /\ (Cur.op = "makedirs" /\ Exists(files, TrainingFolder(Cur.w), "")) =>
                ENABLED (Makedirs /\ err' = NoErr)
          /\ (Cur.op = "copy" /\ IsSetUp(files, Cur.w)) =>
                ENABLED (Copy /\ err' = NoErr)
          /\ (Cur.op \in {"makedirs", "copy"} /\ IsSetUp(files, Cur.w)) =>
                FolderOf(files', TrainingFolder(Cur.w)) =
                    FolderOf(files, TrainingFolder(Cur.w))
          /\ Cur.w = 2 =>
                FolderOf(files', TrainingFolder(1)) =
                    FolderOf(files, TrainingFolder(1))]_vars

\* the folders were there from an earlier execution and the first was set up
\* again: the disk holds what it held before
C29_Witness ==
    /\ nb = "training"
    /\ err = NoErr
    /\ raised = {}
    /\ TrainingNotebook[pc].op = "writefile"
    /\ TrainingNotebook[pc].w = 1
    /\ started = 1..(pc - 1)
    /\ files = TrainedFiles

(***************************************************************************)
(* C30.  Every registration of a dataset makes a new version: a step that  *)
(* registers under a name adds one version, numbered one more than the     *)
(* versions the name had, and binds the cell's variable to it; so a name   *)
(* registered n times has the versions 1..n, the variables                 *)
(* baseline_data_set and target_data_set hold the newest version of their  *)
(* names, and a monitor binds these newest versions.                       *)
(***************************************************************************)
DatasetNames == {"diabetes baseline", "diabetes target"}

VersionsOf(dss, n) == {j \in DOMAIN dss : dss[j].name = n}

NewestVersions ==
    /\ \A n \in DatasetNames :
          /\ {datasets[j].version : j \in VersionsOf(datasets, n)} =
                1..Cardinality(VersionsOf(datasets, n))
          /\ \A j, k \in VersionsOf(datasets, n) :
                j < k => datasets[j].version < datasets[k].version
    /\ sess.baseline_data_set.name = "diabetes baseline" =>
          sess.baseline_data_set = Newest("diabetes baseline")
    /\ sess.target_data_set.name = "diabetes target" =>
          sess.target_data_set = Newest("diabetes target")
    /\ \A k \in DOMAIN monitors :
          /\ monitors[k].baseline = Newest("diabetes baseline")
          /\ monitors[k].target = Newest("diabetes target")

C30_NewVersionPerRegistration ==
    [][/\ datasets' # datasets =>
             LET d == datasets'[Len(datasets')]
             IN  /\ datasets' = Append(datasets, d)
                 /\ d.name \in DatasetNames
                 /\ d.version = Cardinality(VersionsOf(datasets, d.name)) + 1
                 /\ d.name = "diabetes baseline" => sess'.baseline_data_set = d
                 /\ d.name = "diabetes target" => sess'.target_data_set = d
       /\ NewestVersions']_vars

\* the baseline was registered for the second time, the target for the
\* first, and the monitor binds version 2 of the one and 1 of the other
C30_Witness ==
    /\ nb = "drift"
    /\ Cardinality(VersionsOf(datasets, "diabetes baseline")) = 2
    /\ Cardinality(VersionsOf(datasets, "diabetes target")) = 1
    /\ sess.baseline_data_set.version = 2
    /\ sess.target_data_set.version = 1
    /\ Len(monitors) = 1
    /\ monitors[1].baseline = datasets[2]
    /\ monitors[1].target = datasets[3]

(***************************************************************************)
(* Helpers of the properties of the dates.                                 *)
(***************************************************************************)
\* a time is <<day, tick>>; a date is the time <<day, 0>>
TimeLeq(a, b) == a[1] < b[1] \/ (a[1] = b[1] /\ a[2] <= b[2])

BackfillRuns == {i \in DOMAIN runs : runs[i].kind = "backfill"}

(***************************************************************************)
(* C25.  An execution of the generation loop on a day writes six files     *)
(* whose dates are that day minus 5, 4, 3, 2, 1 and 0 weeks: pairwise      *)
(* distinct, each 7 days after the one before, and in file_paths oldest    *)
(* first.                                                                  *)
(***************************************************************************)
C25_SixWeeklyDates ==
    [][sess'.written # sess.written =>
           /\ DOMAIN sess'.written = 1..6
           /\ DOMAIN sess'.file_paths = 1..6
           /\ \A k \in 1..6 :
                 /\ sess'.written[k].date = today - 7 * (6 - k)
                 /\ sess'.file_paths[k] = sess'.written[k].name
                 /\ sess'.written[k].name =
                       "diabetes_" \o Strftime(DateOfDay(sess'.written[k].date))
                           \o ".csv"
           /\ \A k \in 1..5 :
                 sess'.written[k + 1].date = sess'.written[k].date + 7
           /\ \A k, l \in 1..6 :
                 k # l => sess'.written[k].date # sess'.written[l].date]_vars

(***************************************************************************)
(* C27.  Original claim: when the backfill cell is run fewer than 7 days   *)
(* after the generation cell, the date of every snapshot is not before the *)
(* start of the backfill window and not after its end, and the start is    *)
(* not after the end.                                                      *)
(***************************************************************************)
InWindow(win) ==
    /\ TimeLeq(win.start, win.end)
    /\ \A k \in DOMAIN sess.written :
          /\ TimeLeq(win.start, <<sess.written[k].date, 0>>)
          /\ TimeLeq(<<sess.written[k].date, 0>>, win.end)

C27_SnapshotsInWindow ==
    \A i \in BackfillRuns :
        sched.wait < 7 * TicksPerDay => InWindow(runs[i].window)

(***************************************************************************)
(* C27.  Amended claim: when the backfill cell is run no later than 7 days *)
(* after the beginning (00:00) of the day on which the generation loop     *)
(* started, the date of every snapshot is not before the start of the      *)
(* backfill window and not after its end; the start is never after the     *)
(* end.                                                                    *)
(***************************************************************************)
\* the day on which the generation loop started: its first pass wrote the
\* date five weeks before
GenerationDay == sess.written[1].date + 7 * Weeknos[1]

C27_SnapshotsInWindowByDay ==
    \A i \in BackfillRuns :
        /\ TimeLeq(runs[i].window.start, runs[i].window.end)
        /\ runs[i].window.end = <<today, tick>>
        /\ TimeLeq(runs[i].window.end, <<GenerationDay + 7, 0>>) =>
              InWindow(runs[i].window)

\* midnight fell in the loop, the backfill was started five days later and
\* its window holds the six dates
C27_Witness ==
    \E i \in BackfillRuns :
        /\ sched.midnight = 3
        /\ sched.wait = 5 * TicksPerDay + 1
        /\ runs[i].window.start = <<6 - 42, 1>>
        /\ sess.written[1].date = 0 - 35
        /\ sess.written[6].date = 1
        /\ InWindow(runs[i].window)

(***************************************************************************)
(* C28.  The date in a snapshot's file name comes back from the target     *)
(* dataset's partition format: every file uploaded to diabetes-target      *)
(* matches 'diabetes-target/diabetes_{date:yyyy-MM-dd}.csv', and the date  *)
(* read from the path of a snapshot of this execution is the date the      *)
(* snapshot was written for.                                               *)
(***************************************************************************)
C28_DateRoundTrip ==
    (nb = "drift" /\ sess.target_data_set.partition_format # "none") =>
        /\ sess.target_data_set.partition_format =
              "diabetes-target/diabetes_{date:yyyy-MM-dd}.csv"
        /\ \A k \in DOMAIN sess.written :
              File("diabetes-target", sess.written[k].name,
                   ToString(sess.written[k].data)) \in datastore
        /\ \A f \in datastore :
              f.dir = "diabetes-target" =>
                  LET date == ParsePath(sess.target_data_set.partition_format,
                                        f.dir \o "/" \o f.name)
                  IN  /\ date # NoDate
                      /\ \A k \in DOMAIN sess.written :
                            sess.written[k].name = f.name =>
                                DayOfDate(date) = sess.written[k].date

\* the snapshots of 29 November 2020 to 3 January 2021 were uploaded; the
\* oldest and the newest path give these dates back
C28_Witness ==
    /\ nb = "drift"
    /\ sess.target_data_set.partition_format # "none"
    /\ File("diabetes-target", "diabetes_2020-11-29.csv",
             ToString(sess.written[1].data)) \in datastore
    /\ ParsePath(sess.target_data_set.partition_format,
                 "diabetes-target/diabetes_2020-11-29.csv") = Ymd(2020, 11, 29)
    /\ ParsePath(sess.target_data_set.partition_format,
                 "diabetes-target/diabetes_2021-01-03.csv") = Ymd(2021, 1, 3)
    /\ sess.written[6].date = 0
    /\ sess.written[6].name = "diabetes_2021-01-03.csv"

====
